---- MODULE Spec2Model ----
(***************************************************************************)
(* Matchmaking and session coordination engine of the random-chat server. *)
(*                                                                         *)
(* The repository holds three variants of the Socket.IO server:            *)
(*   - src/unnamed/part_001, lines 1-942: the production server, with      *)
(*     validation, rate limiting and the periodic cleanup ("Reaper");      *)
(*   - src/server.js: the basic server (no validation, no guard against a  *)
(*     second join-queue, no rate limiting, no cleanup);                   *)
(*   - src/unnamed/part_001, lines 943-2106: an annotated middle variant.  *)
(* The production server is modelled by the actions without suffix, the    *)
(* basic server by the actions whose names end in Basic.                   *)
(*                                                                         *)
(* Every Socket.IO handler runs to completion on the single Node.js event  *)
(* loop, so each handler is one atomic action.  Time is Date.now() in      *)
(* milliseconds.  uuidv4() is a counter of fresh room ids.                 *)
(***************************************************************************)
EXTENDS Integers, Sequences, FiniteSets, TLC

(***************************************************************************)
(* Bounds of the model.                                                    *)
(***************************************************************************)
MaxSockets == 2
MatchSockets == 3
MaxRoomIds == 2
MaxTicks == 2
RateTicks == 6
MaxOver == 1
RelayTicks == 1
RelayBurst == 1

Sockets == 1..MaxSockets

(***************************************************************************)
(* CONFIG of the production server.                                        *)
(* MAX_WAITING_USERS, MAX_ACTIVE_ROOMS, QUEUE_TIMEOUT and ROOM_TIMEOUT are  *)
(* read from the environment (defaults 1000, 500, 300000 and 1800000); the *)
(* values below are those of a deployment configured with                  *)
(* MAX_WAITING_USERS=1 MAX_ACTIVE_ROOMS=1 QUEUE_TIMEOUT_MS=60000           *)
(* ROOM_TIMEOUT_MS=60000.  The other values are fixed in the source.       *)
(***************************************************************************)
MAX_WAITING_USERS == 1
MAX_ACTIVE_ROOMS == 1
QUEUE_TIMEOUT == 60000
ROOM_TIMEOUT == 60000
CLEANUP_INTERVAL == 60000
MAX_MESSAGE_LENGTH == 10000
MAX_USERNAME_LENGTH == 50
MAX_INTERESTS == 10
MAX_TEXT_SIZE == 51200
MAX_IMAGE_SIZE == 5242880
MAX_VIDEO_SIZE == 15728640
MESSAGE_RATE_LIMIT == 10
MESSAGE_RATE_WINDOW == 1000
MEDIA_RATE_LIMIT == 3
MEDIA_RATE_WINDOW == 5000

(***************************************************************************)
(* JavaScript Map, kept as a sequence of entries in insertion order.       *)
(***************************************************************************)
RECURSIVE IndexOf(_, _, _)
IndexOf(m, k, i) ==
  IF i > Len(m) THEN 0
  ELSE IF m[i].key = k THEN i
  ELSE IndexOf(m, k, i + 1)

MapHas(m, k) == IndexOf(m, k, 1) # 0

MapGet(m, k) == m[IndexOf(m, k, 1)].value

MapKeys(m) == {m[i].key : i \in 1..Len(m)}

MapSet(m, k, v) ==
  IF MapHas(m, k)
  THEN [m EXCEPT ![IndexOf(m, k, 1)] = [key |-> k, value |-> v]]
  ELSE Append(m, [key |-> k, value |-> v])

MapDelete(m, k) == SelectSeq(m, LAMBDA e : e.key # k)

(***************************************************************************)
(* Array helpers.                                                          *)
(***************************************************************************)
Includes(arr, x) == \E i \in 1..Len(arr) : arr[i] = x

Elems(arr) == {arr[i] : i \in 1..Len(arr)}

Slice(arr, n) == IF Len(arr) <= n THEN arr ELSE SubSeq(arr, 1, n)

RECURSIVE TrimLeft(_)
TrimLeft(str) ==
  IF str # <<>> /\ Head(str) = " " THEN TrimLeft(Tail(str)) ELSE str

RECURSIVE TrimRight(_)
TrimRight(str) ==
  IF str # <<>> /\ str[Len(str)] = " "
  THEN TrimRight(SubSeq(str, 1, Len(str) - 1))
  ELSE str

Trim(str) == TrimRight(TrimLeft(str))

(***************************************************************************)
(* JavaScript Map that is never iterated in an order-sensitive way, kept   *)
(* as a function on its key set.                                           *)
(***************************************************************************)
EmptyMap == [k \in {} |-> 0]

Has(f, k) == k \in DOMAIN f

Put(f, k, v) == [x \in (DOMAIN f) \cup {k} |-> IF x = k THEN v ELSE f[x]]

Del(f, k) == [x \in (DOMAIN f) \ {k} |-> f[x]]

(***************************************************************************)
(* Events sent to clients.  One record shape serves every event; the       *)
(* fields an event does not carry keep the values of NoData.               *)
(***************************************************************************)
NoPartner == [username |-> <<>>, gender |-> "", interests |-> <<>>]

NoData ==
  [roomId |-> 0, message |-> "", reason |-> "", partner |-> NoPartner,
   commonInterests |-> <<>>, from |-> 0,
   content |-> [isString |-> FALSE, length |-> 0, byteLength |-> 0,
               mediaKind |-> "", format |-> "", base64Size |-> 0],
   type |-> "",
   timestamp |-> 0, payload |-> "", flag |-> FALSE]

Emit(to, event, data) == [to |-> to, event |-> event, data |-> data]

ErrorEvent(to, message) == Emit(to, "error", [NoData EXCEPT !.message = message])

MatchFound(to, roomId, partner, commonInterests) ==
  Emit(to, "match-found",
       [NoData EXCEPT !.roomId = roomId,
                      !.partner = [username |-> partner.username,
                                   gender |-> partner.gender,
                                   interests |-> partner.interests],
                      !.commonInterests = commonInterests])

(* Variant that leaves out the sender named in the event, as a broadcast   *)
(* from the sender's socket would; C12 does not hold of it.                *)
ToRoomBroadcast(members, except, event, data) ==
  LET rcpt == SelectSeq(members, LAMBDA m : m # except /\ m # data.from)
  IN  [i \in 1..Len(rcpt) |-> Emit(rcpt[i], event, data)]

(* Variant that leaves nobody out; C13 does not hold of it.                *)
ToRoomAll(members, except, event, data) ==
  [i \in 1..Len(members) |-> Emit(members[i], event, data)]

(* io.to(roomId).emit / socket.broadcast.to(roomId).emit: one event to     *)
(* every socket of the Socket.IO room, in join order, except `except`.     *)
(* The roomId of such an event is the room it was addressed to.            *)
ToRoom(members, except, event, data) ==
  LET rcpt == SelectSeq(members, LAMBDA m : m # except)
  IN  [i \in 1..Len(rcpt) |-> Emit(rcpt[i], event, data)]

(***************************************************************************)
(* validateUserData.  The payload of join-queue is null / undefined        *)
(* (NoUserData) or an object.  Its username is a string, given as its      *)
(* sequence of characters, or a value of another type (NotAString); its    *)
(* interests is an array of strings or a value of another type             *)
(* (NotAnArray).                                                           *)
(***************************************************************************)
JsString(chars) == [isString |-> TRUE, chars |-> chars]

NotAString == [isString |-> FALSE, chars |-> <<>>]

JsArray(items) == [isArray |-> TRUE, items |-> items]

NotAnArray == [isArray |-> FALSE, items |-> <<>>]

UserData(username, gender, preferredGender, interests) ==
  [present |-> TRUE, username |-> username, gender |-> gender,
   preferredGender |-> preferredGender, interests |-> interests]

NoUserData ==
  [present |-> FALSE, username |-> NotAString, gender |-> "",
   preferredGender |-> "", interests |-> NotAnArray]

Invalid(error) == [valid |-> FALSE, error |-> error]

(* Variant without the check of the number of interests; C19 does not     *)
(* hold of it.                                                             *)
validateUserDataAnyCount(userData) ==
  IF ~userData.present THEN Invalid("No user data provided")
  ELSE IF ~userData.username.isString \/ userData.username.chars = <<>>
    THEN Invalid("Invalid username")
  ELSE IF Len(userData.username.chars) > MAX_USERNAME_LENGTH
    THEN Invalid("Username too long")
  ELSE IF userData.gender \notin {"male", "female"}
    THEN Invalid("Invalid gender")
  ELSE IF userData.preferredGender \notin {"male", "female", "any"}
    THEN Invalid("Invalid preferred gender")
  ELSE IF ~userData.interests.isArray
    THEN Invalid("Interests must be an array")
  ELSE
    LET validInterests ==
          Slice(SelectSeq(userData.interests.items,
                          LAMBDA i : Len(i) > 0 /\ Len(i) <= 50),
                MAX_INTERESTS)
    IN  [valid |-> TRUE,
         data |-> [username |-> Slice(Trim(userData.username.chars),
                                      MAX_USERNAME_LENGTH),
                   gender |-> userData.gender,
                   preferredGender |-> userData.preferredGender,
                   interests |-> validInterests]]

validateUserData(userData) ==
  IF ~userData.present THEN Invalid("No user data provided")
  ELSE IF ~userData.username.isString \/ userData.username.chars = <<>>
    THEN Invalid("Invalid username")
  ELSE IF Len(userData.username.chars) > MAX_USERNAME_LENGTH
    THEN Invalid("Username too long")
  ELSE IF userData.gender \notin {"male", "female"}
    THEN Invalid("Invalid gender")
  ELSE IF userData.preferredGender \notin {"male", "female", "any"}
    THEN Invalid("Invalid preferred gender")
  ELSE IF ~userData.interests.isArray
    THEN Invalid("Interests must be an array")
  ELSE IF Len(userData.interests.items) > MAX_INTERESTS
    THEN Invalid("Too many interests")
  ELSE
    LET validInterests ==
          Slice(SelectSeq(userData.interests.items,
                          LAMBDA i : Len(i) > 0 /\ Len(i) <= 50),
                MAX_INTERESTS)
    IN  [valid |-> TRUE,
         data |-> [username |-> Slice(Trim(userData.username.chars),
                                      MAX_USERNAME_LENGTH),
                   gender |-> userData.gender,
                   preferredGender |-> userData.preferredGender,
                   interests |-> validInterests]]

(***************************************************************************)
(* State.                                                                  *)
(*   sockets          io.sockets.sockets: the live connections             *)
(*   closed           ids of connections that have disconnected (ids are   *)
(*                    never reused)                                        *)
(*   adapterRooms     Socket.IO room membership (socket.join / leave)      *)
(*   waitingUsers     Map socket id -> user (with joinedAt)                *)
(*   activeRooms      Map room id -> {user1, user2, createdAt}             *)
(*   socketToRoom     Map socket id -> room id                             *)
(*   messageRateLimits, mediaRateLimits                                    *)
(*                    Map socket id -> {count, windowStart}                *)
(*   now              Date.now()                                           *)
(*   sweepDue         the time from which the cleanup timer may fire       *)
(*   nextUuid         the next room id uuidv4() returns                    *)
(*   lastEvent        the step taken last: the event whose handler ran, or *)
(*                    the passing of time                                  *)
(*   emitted          the events that step sent to clients, in order       *)
(***************************************************************************)
VARIABLES sockets, closed, adapterRooms, waitingUsers, activeRooms,
          socketToRoom, messageRateLimits, mediaRateLimits, now, sweepDue,
          nextUuid, lastEvent, emitted

vars == <<sockets, closed, adapterRooms, waitingUsers, activeRooms,
          socketToRoom, messageRateLimits, mediaRateLimits, now, sweepDue,
          nextUuid, lastEvent, emitted>>

(* lastEvent: the event name, the socket it came from (0 for the timers),   *)
(* the payload of a join-queue, and the cleanedCount the cleanup of the     *)
(* waiting queue logs.                                                     *)
Event(name, socketId) ==
  [name |-> name, socketId |-> socketId, data |-> NoUserData, cleaned |-> 0]

JoinEvent(socketId, userData) ==
  [name |-> "join-queue", socketId |-> socketId, data |-> userData, cleaned |-> 0]

CleanupEvent(cleanedCount) ==
  [name |-> "cleanup", socketId |-> 0, data |-> NoUserData, cleaned |-> cleanedCount]

Init ==
  /\ sockets = {}
  /\ closed = {}
  /\ adapterRooms = EmptyMap
  /\ waitingUsers = <<>>
  /\ activeRooms = <<>>
  /\ socketToRoom = EmptyMap
  /\ messageRateLimits = EmptyMap
  /\ mediaRateLimits = EmptyMap
  /\ now = 0
  /\ sweepDue = CLEANUP_INTERVAL
  /\ nextUuid = 1
  /\ lastEvent = Event("listen", 0)
  /\ emitted = <<>>

(***************************************************************************)
(* Socket.IO rooms: socket.join, socket.leave, and the leaveAll that       *)
(* Socket.IO performs before it emits 'disconnect'.                        *)
(***************************************************************************)
Members(rooms, roomId) == IF Has(rooms, roomId) THEN rooms[roomId] ELSE <<>>

Join(rooms, roomId, socketId) ==
  IF Includes(Members(rooms, roomId), socketId) THEN rooms
  ELSE Put(rooms, roomId, Append(Members(rooms, roomId), socketId))

Leave(rooms, roomId, socketId) ==
  LET rest == SelectSeq(Members(rooms, roomId), LAMBDA m : m # socketId)
  IN  IF rest = <<>> THEN Del(rooms, roomId) ELSE Put(rooms, roomId, rest)

LeaveAll(rooms, socketId) ==
  LET kept == {r \in DOMAIN rooms : \E i \in 1..Len(rooms[r]) : rooms[r][i] # socketId}
  IN  [r \in kept |-> SelectSeq(rooms[r], LAMBDA m : m # socketId)]

(* socket.leave on the socket object found in io.sockets.sockets, if any   *)
LeaveIfLive(rooms, live, roomId, socketId) ==
  IF socketId \in live THEN Leave(rooms, roomId, socketId) ELSE rooms

(***************************************************************************)
(* findMatch.                                                              *)
(***************************************************************************)
(* Variant that checks the requester's preference only; C2 does not hold   *)
(* of it.                                                                  *)
GenderMatchOneWay(user, waitingUser) ==
  user.preferredGender = "any" \/ user.preferredGender = waitingUser.gender

(* Variant that does not treat the preference 'any' as matching every     *)
(* gender; C37 does not hold of it.                                        *)
GenderMatchExact(user, waitingUser) ==
  /\ user.preferredGender = waitingUser.gender
  /\ waitingUser.preferredGender = user.gender

GenderMatch(user, waitingUser) ==
  /\ user.preferredGender = "any" \/ user.preferredGender = waitingUser.gender
  /\ waitingUser.preferredGender = "any" \/ waitingUser.preferredGender = user.gender

(* Variant that reports all of the requester's interests; C9 does not hold *)
(* of it.                                                                  *)
CommonInterestsOfUser(user, waitingUser) == user.interests

CommonInterests(user, waitingUser) ==
  SelectSeq(user.interests, LAMBDA interest : Includes(waitingUser.interests, interest))

RECURSIVE CompatibleFrom(_, _, _, _)
CompatibleFrom(queue, user, socketId, i) ==
  IF i > Len(queue) THEN <<>>
  ELSE IF queue[i].key # socketId /\ GenderMatch(user, queue[i].value)
    THEN <<[user |-> queue[i].value,
            socketId |-> queue[i].key,
            score |-> Len(CommonInterests(user, queue[i].value)),
            commonInterests |-> CommonInterests(user, queue[i].value)]>>
         \o CompatibleFrom(queue, user, socketId, i + 1)
  ELSE CompatibleFrom(queue, user, socketId, i + 1)

compatibleMatches(queue, user, socketId) == CompatibleFrom(queue, user, socketId, 1)

RECURSIVE MaxScore(_)
MaxScore(matches) ==
  IF Len(matches) = 1 THEN matches[1].score
  ELSE LET rest == MaxScore(Tail(matches))
       IN  IF matches[1].score >= rest THEN matches[1].score ELSE rest

bestMatches(queue, user, socketId) ==
  LET compatible == compatibleMatches(queue, user, socketId)
  IN  IF compatible = <<>> THEN <<>>
      ELSE SelectSeq(compatible, LAMBDA m : m.score = MaxScore(compatible))

(* The values Math.floor(Math.random() * bestMatches.length) can take.     *)
RandomIndexes(queue, user, socketId) ==
  IF bestMatches(queue, user, socketId) = <<>> THEN {0}
  ELSE 0..(Len(bestMatches(queue, user, socketId)) - 1)

NoMatch == [found |-> FALSE]

findMatch(queue, user, socketId, randomIndex) ==
  LET best == bestMatches(queue, user, socketId)
  IN  IF best = <<>> THEN NoMatch
      ELSE [found |-> TRUE,
            user |-> best[randomIndex + 1].user,
            socketId |-> best[randomIndex + 1].socketId,
            commonInterests |-> best[randomIndex + 1].commonInterests]

(***************************************************************************)
(* A client connects: io.on('connection').  Socket.IO gives every          *)
(* connection a fresh id; the k-th connection is given the id k.           *)
(***************************************************************************)
Connect(s) ==
  /\ s = Cardinality(sockets \cup closed) + 1
  /\ sockets' = sockets \cup {s}
  /\ lastEvent' = Event("connection", s)
  /\ emitted' = <<>>
  /\ UNCHANGED <<closed, adapterRooms, waitingUsers, activeRooms, socketToRoom,
                 messageRateLimits, mediaRateLimits, now, sweepDue, nextUuid>>

(***************************************************************************)
(* socket.on('join-queue') of the production server.                       *)
(***************************************************************************)
WithSocketId(socketId, user) ==
  [socketId |-> socketId, username |-> user.username, gender |-> user.gender,
   preferredGender |-> user.preferredGender, interests |-> user.interests,
   joinedAt |-> user.joinedAt]

(* Variant that turns a request away when the queue is at its ceiling;     *)
(* C21 does not hold of it.                                                *)
JoinQueueCapped(s, userData) ==
  /\ s \in sockets
  /\ lastEvent' = JoinEvent(s, userData)
  /\ UNCHANGED <<sockets, closed, messageRateLimits, mediaRateLimits, now, sweepDue>>
  /\ LET validation == validateUserData(userData) IN
     IF ~validation.valid THEN
       /\ emitted' = <<ErrorEvent(s, validation.error)>>
       /\ UNCHANGED <<adapterRooms, waitingUsers, activeRooms, socketToRoom, nextUuid>>
     ELSE IF MapHas(waitingUsers, s) \/ Has(socketToRoom, s) THEN
       /\ emitted' = <<ErrorEvent(s, "Already in queue or chat")>>
       /\ UNCHANGED <<adapterRooms, waitingUsers, activeRooms, socketToRoom, nextUuid>>
     ELSE IF Len(waitingUsers) >= MAX_WAITING_USERS THEN
       /\ emitted' = <<ErrorEvent(s, "Queue is full")>>
       /\ UNCHANGED <<adapterRooms, waitingUsers, activeRooms, socketToRoom, nextUuid>>
     ELSE
       LET validData == validation.data
           user == [username |-> validData.username, gender |-> validData.gender,
                    preferredGender |-> validData.preferredGender,
                    interests |-> validData.interests, joinedAt |-> now]
       IN  \E randomIndex \in RandomIndexes(waitingUsers, user, s) :
           LET match == findMatch(waitingUsers, user, s, randomIndex) IN
           IF match.found THEN
             LET roomId == nextUuid IN
             /\ nextUuid <= MaxRoomIds
             /\ nextUuid' = nextUuid + 1
             /\ IF match.socketId \in sockets THEN
                  /\ waitingUsers' = MapDelete(waitingUsers, match.socketId)
                  /\ adapterRooms' = Join(Join(adapterRooms, roomId, s), roomId, match.socketId)
                  /\ activeRooms' =
                       MapSet(activeRooms, roomId,
                              [user1 |-> WithSocketId(s, user),
                               user2 |-> WithSocketId(match.socketId, match.user),
                               createdAt |-> now])
                  /\ socketToRoom' = Put(Put(socketToRoom, s, roomId), match.socketId, roomId)
                  /\ emitted' = <<MatchFound(s, roomId, match.user, match.commonInterests),
                                  MatchFound(match.socketId, roomId, user, match.commonInterests)>>
                ELSE
                  /\ waitingUsers' = MapSet(MapDelete(waitingUsers, match.socketId), s, user)
                  /\ adapterRooms' = Join(adapterRooms, roomId, s)
                  /\ emitted' = <<Emit(s, "searching", NoData)>>
                  /\ UNCHANGED <<activeRooms, socketToRoom>>
           ELSE
             /\ waitingUsers' = MapSet(waitingUsers, s, user)
             /\ emitted' = <<Emit(s, "searching", NoData)>>
             /\ UNCHANGED <<adapterRooms, activeRooms, socketToRoom, nextUuid>>

(* Variant that empties the queue when it finds a match; C38 does not     *)
(* hold of it.                                                             *)
JoinQueueClearsQueue(s, userData) ==
  /\ s \in sockets
  /\ lastEvent' = JoinEvent(s, userData)
  /\ UNCHANGED <<sockets, closed, messageRateLimits, mediaRateLimits, now, sweepDue>>
  /\ LET validation == validateUserData(userData) IN
     IF ~validation.valid THEN
       /\ emitted' = <<ErrorEvent(s, validation.error)>>
       /\ UNCHANGED <<adapterRooms, waitingUsers, activeRooms, socketToRoom, nextUuid>>
     ELSE IF MapHas(waitingUsers, s) \/ Has(socketToRoom, s) THEN
       /\ emitted' = <<ErrorEvent(s, "Already in queue or chat")>>
       /\ UNCHANGED <<adapterRooms, waitingUsers, activeRooms, socketToRoom, nextUuid>>
     ELSE
       LET validData == validation.data
           user == [username |-> validData.username, gender |-> validData.gender,
                    preferredGender |-> validData.preferredGender,
                    interests |-> validData.interests, joinedAt |-> now]
       IN  \E randomIndex \in RandomIndexes(waitingUsers, user, s) :
           LET match == findMatch(waitingUsers, user, s, randomIndex) IN
           IF match.found THEN
             LET roomId == nextUuid IN
             /\ nextUuid <= MaxRoomIds
             /\ nextUuid' = nextUuid + 1
             /\ IF match.socketId \in sockets THEN
                  /\ waitingUsers' = <<>>
                  /\ adapterRooms' = Join(Join(adapterRooms, roomId, s), roomId, match.socketId)
                  /\ activeRooms' =
                       MapSet(activeRooms, roomId,
                              [user1 |-> WithSocketId(s, user),
                               user2 |-> WithSocketId(match.socketId, match.user),
                               createdAt |-> now])
                  /\ socketToRoom' = Put(Put(socketToRoom, s, roomId), match.socketId, roomId)
                  /\ emitted' = <<MatchFound(s, roomId, match.user, match.commonInterests),
                                  MatchFound(match.socketId, roomId, user, match.commonInterests)>>
                ELSE
                  /\ waitingUsers' = MapSet(MapDelete(waitingUsers, match.socketId), s, user)
                  /\ adapterRooms' = Join(adapterRooms, roomId, s)
                  /\ emitted' = <<Emit(s, "searching", NoData)>>
                  /\ UNCHANGED <<activeRooms, socketToRoom>>
           ELSE
             /\ waitingUsers' = MapSet(waitingUsers, s, user)
             /\ emitted' = <<Emit(s, "searching", NoData)>>
             /\ UNCHANGED <<adapterRooms, activeRooms, socketToRoom, nextUuid>>

JoinQueue(s, userData) ==
  /\ s \in sockets
  /\ lastEvent' = JoinEvent(s, userData)
  /\ UNCHANGED <<sockets, closed, messageRateLimits, mediaRateLimits, now, sweepDue>>
  /\ LET validation == validateUserData(userData) IN
     IF ~validation.valid THEN
       /\ emitted' = <<ErrorEvent(s, validation.error)>>
       /\ UNCHANGED <<adapterRooms, waitingUsers, activeRooms, socketToRoom, nextUuid>>
     ELSE IF MapHas(waitingUsers, s) \/ Has(socketToRoom, s) THEN
       /\ emitted' = <<ErrorEvent(s, "Already in queue or chat")>>
       /\ UNCHANGED <<adapterRooms, waitingUsers, activeRooms, socketToRoom, nextUuid>>
     ELSE
       LET validData == validation.data
           user == [username |-> validData.username, gender |-> validData.gender,
                    preferredGender |-> validData.preferredGender,
                    interests |-> validData.interests, joinedAt |-> now]
       IN  \E randomIndex \in RandomIndexes(waitingUsers, user, s) :
           LET match == findMatch(waitingUsers, user, s, randomIndex) IN
           IF match.found THEN
             LET roomId == nextUuid IN
             /\ nextUuid <= MaxRoomIds
             /\ nextUuid' = nextUuid + 1
             /\ IF match.socketId \in sockets THEN
                  /\ waitingUsers' = MapDelete(waitingUsers, match.socketId)
                  /\ adapterRooms' = Join(Join(adapterRooms, roomId, s), roomId, match.socketId)
                  /\ activeRooms' =
                       MapSet(activeRooms, roomId,
                              [user1 |-> WithSocketId(s, user),
                               user2 |-> WithSocketId(match.socketId, match.user),
                               createdAt |-> now])
                  /\ socketToRoom' = Put(Put(socketToRoom, s, roomId), match.socketId, roomId)
                  /\ emitted' = <<MatchFound(s, roomId, match.user, match.commonInterests),
                                  MatchFound(match.socketId, roomId, user, match.commonInterests)>>
                ELSE
                  /\ waitingUsers' = MapSet(MapDelete(waitingUsers, match.socketId), s, user)
                  /\ adapterRooms' = Join(adapterRooms, roomId, s)
                  /\ emitted' = <<Emit(s, "searching", NoData)>>
                  /\ UNCHANGED <<activeRooms, socketToRoom>>
           ELSE
             /\ waitingUsers' = MapSet(waitingUsers, s, user)
             /\ emitted' = <<Emit(s, "searching", NoData)>>
             /\ UNCHANGED <<adapterRooms, activeRooms, socketToRoom, nextUuid>>

(***************************************************************************)
(* socket.on('leave-queue').                                               *)
(***************************************************************************)
(* Variant that also drops the binding of the connection to its room; C33 *)
(* does not hold of it.                                                    *)
LeaveQueueUnbinds(s) ==
  /\ s \in sockets
  /\ lastEvent' = Event("leave-queue", s)
  /\ waitingUsers' = MapDelete(waitingUsers, s)
  /\ socketToRoom' = Del(socketToRoom, s)
  /\ emitted' = <<>>
  /\ UNCHANGED <<sockets, closed, adapterRooms, activeRooms,
                 messageRateLimits, mediaRateLimits, now, sweepDue, nextUuid>>

(* Variant that only logs the withdrawal and leaves the entry in the       *)
(* queue; C34 does not hold of it.                                         *)
LeaveQueueLogsOnly(s) ==
  /\ s \in sockets
  /\ lastEvent' = Event("leave-queue", s)
  /\ emitted' = <<>>
  /\ UNCHANGED <<sockets, closed, adapterRooms, waitingUsers, activeRooms, socketToRoom,
                 messageRateLimits, mediaRateLimits, now, sweepDue, nextUuid>>

LeaveQueue(s) ==
  /\ s \in sockets
  /\ lastEvent' = Event("leave-queue", s)
  /\ waitingUsers' = MapDelete(waitingUsers, s)
  /\ emitted' = <<>>
  /\ UNCHANGED <<sockets, closed, adapterRooms, activeRooms, socketToRoom,
                 messageRateLimits, mediaRateLimits, now, sweepDue, nextUuid>>

(***************************************************************************)
(* checkRateLimit: the updated map and the verdict.                        *)
(***************************************************************************)
(* Variant that rejects the check that reaches the limit; C8 does not hold *)
(* of it.                                                                  *)
checkRateLimitStrict(rateLimitMap, socketId, isMedia, time) ==
  LET limit == IF isMedia THEN MEDIA_RATE_LIMIT ELSE MESSAGE_RATE_LIMIT
      window == IF isMedia THEN MEDIA_RATE_WINDOW ELSE MESSAGE_RATE_WINDOW
      stored == IF Has(rateLimitMap, socketId) THEN rateLimitMap[socketId]
                ELSE [count |-> 0, windowStart |-> time]
      userLimits == IF time - stored.windowStart > window
                    THEN [count |-> 0, windowStart |-> time]
                    ELSE stored
      counted == [userLimits EXCEPT !.count = userLimits.count + 1]
  IN  [map |-> Put(rateLimitMap, socketId, counted),
       allowed |-> counted.count < limit]

(* Variant that keeps one window for all connections, under the key 0;     *)
(* C26 does not hold of it.                                                *)
checkRateLimitShared(rateLimitMap, socketId, isMedia, time) ==
  LET limit == IF isMedia THEN MEDIA_RATE_LIMIT ELSE MESSAGE_RATE_LIMIT
      window == IF isMedia THEN MEDIA_RATE_WINDOW ELSE MESSAGE_RATE_WINDOW
      stored == IF Has(rateLimitMap, 0) THEN rateLimitMap[0]
                ELSE [count |-> 0, windowStart |-> time]
      userLimits == IF time - stored.windowStart > window
                    THEN [count |-> 0, windowStart |-> time]
                    ELSE stored
      counted == [userLimits EXCEPT !.count = userLimits.count + 1]
  IN  [map |-> Put(rateLimitMap, 0, counted),
       allowed |-> counted.count <= limit]

(* Variant that does not count the checks it refuses; the amended C32     *)
(* does not hold of it.                                                    *)
checkRateLimitAllowedOnly(rateLimitMap, socketId, isMedia, time) ==
  LET limit == IF isMedia THEN MEDIA_RATE_LIMIT ELSE MESSAGE_RATE_LIMIT
      window == IF isMedia THEN MEDIA_RATE_WINDOW ELSE MESSAGE_RATE_WINDOW
      stored == IF Has(rateLimitMap, socketId) THEN rateLimitMap[socketId]
                ELSE [count |-> 0, windowStart |-> time]
      userLimits == IF time - stored.windowStart > window
                    THEN [count |-> 0, windowStart |-> time]
                    ELSE stored
      counted == [userLimits EXCEPT !.count = userLimits.count + 1]
  IN  [map |-> IF counted.count <= limit THEN Put(rateLimitMap, socketId, counted)
               ELSE rateLimitMap,
       allowed |-> counted.count <= limit]

checkRateLimit(rateLimitMap, socketId, isMedia, time) ==
  LET limit == IF isMedia THEN MEDIA_RATE_LIMIT ELSE MESSAGE_RATE_LIMIT
      window == IF isMedia THEN MEDIA_RATE_WINDOW ELSE MESSAGE_RATE_WINDOW
      stored == IF Has(rateLimitMap, socketId) THEN rateLimitMap[socketId]
                ELSE [count |-> 0, windowStart |-> time]
      userLimits == IF time - stored.windowStart > window
                    THEN [count |-> 0, windowStart |-> time]
                    ELSE stored
      counted == [userLimits EXCEPT !.count = userLimits.count + 1]
  IN  [map |-> Put(rateLimitMap, socketId, counted),
       allowed |-> counted.count <= limit]

(***************************************************************************)
(* validateMessage.  The payload of send-message is null / undefined       *)
(* (NoMessage) or an object with a type ("" when the field is absent) and  *)
(* a content.  A content is described by what the validation reads of it:  *)
(* whether it is a string, its length in characters and in UTF-8 bytes,    *)
(* the media kind and format of its data-URL prefix ("" when it has none)  *)
(* and the decoded size getBase64Size computes.                            *)
(***************************************************************************)
Content(isString, length, byteLength, mediaKind, format, base64Size) ==
  [isString |-> isString, length |-> length, byteLength |-> byteLength,
   mediaKind |-> mediaKind, format |-> format, base64Size |-> base64Size]

Message(type, content) == [present |-> TRUE, type |-> type, content |-> content]

NoMessage ==
  [present |-> FALSE, type |-> "", content |-> Content(FALSE, 0, 0, "", "", 0)]

TypeOrText(data) == IF data.type = "" THEN "text" ELSE data.type

validateMessage(data) ==
  LET type == TypeOrText(data) IN
  IF ~data.present THEN Invalid("Invalid message data")
  ELSE IF type \notin {"text", "image", "video"} THEN Invalid("Invalid message type")
  ELSE IF ~data.content.isString \/ data.content.length = 0
    THEN Invalid("Invalid message content")
  ELSE IF type = "text" /\ data.content.length > MAX_MESSAGE_LENGTH
    THEN Invalid("Message too long")
  ELSE IF type = "text" /\ data.content.byteLength > MAX_TEXT_SIZE
    THEN Invalid("Message size too large")
  ELSE IF type = "image" /\ data.content.mediaKind # "image"
    THEN Invalid("Invalid image format")
  ELSE IF type = "image" /\ data.content.base64Size > MAX_IMAGE_SIZE
    THEN Invalid("Image too large. Maximum size is 5MB")
  ELSE IF type = "image" /\ data.content.format \notin {"jpeg", "jpg", "png", "gif", "webp"}
    THEN Invalid("Unsupported image type. Use JPEG, PNG, GIF, or WebP")
  ELSE IF type = "video" /\ data.content.mediaKind # "video"
    THEN Invalid("Invalid video format")
  ELSE IF type = "video" /\ data.content.base64Size > MAX_VIDEO_SIZE
    THEN Invalid("Video too large. Maximum size is 15MB")
  ELSE IF type = "video" /\ data.content.format \notin {"mp4", "webm", "ogg"}
    THEN Invalid("Unsupported video type. Use MP4, WebM, or OGG")
  ELSE [valid |-> TRUE]

(***************************************************************************)
(* socket.on('send-message') of the production server.  `burst` bounds the *)
(* number of events one connection sends within one rate-limit window.     *)
(***************************************************************************)
RateLimitError(isMedia) ==
  IF isMedia THEN "Too many medias. Please wait 5 seconds."
  ELSE "Too many messages. Please wait 1 seconds."

WithinBurst(rateLimitMap, socketId, isMedia, burst) ==
  LET window == IF isMedia THEN MEDIA_RATE_WINDOW ELSE MESSAGE_RATE_WINDOW
  IN  IF ~Has(rateLimitMap, socketId) THEN TRUE
      ELSE IF now - rateLimitMap[socketId].windowStart > window THEN TRUE
      ELSE rateLimitMap[socketId].count < burst

(* Variant that looks for the sender's room before it reads the result of *)
(* the rate limiter; C14 does not hold of it.                              *)
SendMessageRoomFirst(s, data, burst) ==
  /\ s \in sockets
  /\ lastEvent' = Event("send-message", s)
  /\ UNCHANGED <<sockets, closed, adapterRooms, waitingUsers, activeRooms, now,
                 sweepDue, nextUuid>>
  /\ IF ~data.present THEN
       (* data.type throws a TypeError, caught by the handler's catch *)
       /\ emitted' = <<ErrorEvent(s, "Failed to send message")>>
       /\ UNCHANGED <<socketToRoom, messageRateLimits, mediaRateLimits>>
     ELSE
       LET isMedia == data.type = "image" \/ data.type = "video"
           checked == checkRateLimit(IF isMedia THEN mediaRateLimits ELSE messageRateLimits,
                                     s, isMedia, now)
           validation == validateMessage(data)
       IN  /\ WithinBurst(IF isMedia THEN mediaRateLimits ELSE messageRateLimits,
                          s, isMedia, burst)
           /\ mediaRateLimits' = IF isMedia THEN checked.map ELSE mediaRateLimits
           /\ messageRateLimits' = IF isMedia THEN messageRateLimits ELSE checked.map
           /\ IF ~Has(socketToRoom, s) THEN
                /\ emitted' = <<ErrorEvent(s, "Not in a chat room")>>
                /\ UNCHANGED socketToRoom
              ELSE IF ~checked.allowed THEN
                /\ emitted' = <<ErrorEvent(s, RateLimitError(isMedia))>>
                /\ UNCHANGED socketToRoom
              ELSE IF ~validation.valid THEN
                /\ emitted' = <<ErrorEvent(s, validation.error)>>
                /\ UNCHANGED socketToRoom
              ELSE IF ~Has(socketToRoom, s) THEN
                /\ emitted' = <<ErrorEvent(s, "Not in a chat room")>>
                /\ UNCHANGED socketToRoom
              ELSE IF ~MapHas(activeRooms, socketToRoom[s]) THEN
                /\ emitted' = <<ErrorEvent(s, "Chat room no longer exists")>>
                /\ socketToRoom' = Del(socketToRoom, s)
              ELSE
                /\ emitted' = ToRoom(Members(adapterRooms, socketToRoom[s]), 0, "new-message",
                                     [NoData EXCEPT !.roomId = socketToRoom[s],
                                                    !.from = s,
                                                    !.content = data.content,
                                                    !.type = TypeOrText(data),
                                                    !.timestamp = now])
                /\ UNCHANGED socketToRoom

(* Variant that validates the message before it asks the rate limiter, so *)
(* that a malformed message is not counted; C39 does not hold of it.       *)
SendMessageValidatesFirst(s, data, burst) ==
  /\ s \in sockets
  /\ lastEvent' = Event("send-message", s)
  /\ UNCHANGED <<sockets, closed, adapterRooms, waitingUsers, activeRooms, now,
                 sweepDue, nextUuid>>
  /\ IF ~data.present THEN
       /\ emitted' = <<ErrorEvent(s, "Failed to send message")>>
       /\ UNCHANGED <<socketToRoom, messageRateLimits, mediaRateLimits>>
     ELSE
       LET isMedia == data.type = "image" \/ data.type = "video"
           checked == checkRateLimit(IF isMedia THEN mediaRateLimits ELSE messageRateLimits,
                                     s, isMedia, now)
           validation == validateMessage(data)
       IN  /\ WithinBurst(IF isMedia THEN mediaRateLimits ELSE messageRateLimits,
                          s, isMedia, burst)
           /\ IF ~validation.valid THEN
                /\ emitted' = <<ErrorEvent(s, validation.error)>>
                /\ UNCHANGED <<socketToRoom, messageRateLimits, mediaRateLimits>>
              ELSE
                /\ mediaRateLimits' = IF isMedia THEN checked.map ELSE mediaRateLimits
                /\ messageRateLimits' = IF isMedia THEN messageRateLimits ELSE checked.map
                /\ IF ~checked.allowed THEN
                     /\ emitted' = <<ErrorEvent(s, RateLimitError(isMedia))>>
                     /\ UNCHANGED socketToRoom
                   ELSE IF ~Has(socketToRoom, s) THEN
                     /\ emitted' = <<ErrorEvent(s, "Not in a chat room")>>
                     /\ UNCHANGED socketToRoom
                   ELSE IF ~MapHas(activeRooms, socketToRoom[s]) THEN
                     /\ emitted' = <<ErrorEvent(s, "Chat room no longer exists")>>
                     /\ socketToRoom' = Del(socketToRoom, s)
                   ELSE
                     /\ emitted' = ToRoom(Members(adapterRooms, socketToRoom[s]), 0,
                                          "new-message",
                                          [NoData EXCEPT !.roomId = socketToRoom[s],
                                                         !.from = s,
                                                         !.content = data.content,
                                                         !.type = TypeOrText(data),
                                                         !.timestamp = now])
                     /\ UNCHANGED socketToRoom

SendMessage(s, data, burst) ==
  /\ s \in sockets
  /\ lastEvent' = Event("send-message", s)
  /\ UNCHANGED <<sockets, closed, adapterRooms, waitingUsers, activeRooms, now,
                 sweepDue, nextUuid>>
  /\ IF ~data.present THEN
       (* data.type throws a TypeError, caught by the handler's catch *)
       /\ emitted' = <<ErrorEvent(s, "Failed to send message")>>
       /\ UNCHANGED <<socketToRoom, messageRateLimits, mediaRateLimits>>
     ELSE
       LET isMedia == data.type = "image" \/ data.type = "video"
           checked == checkRateLimit(IF isMedia THEN mediaRateLimits ELSE messageRateLimits,
                                     s, isMedia, now)
           validation == validateMessage(data)
       IN  /\ WithinBurst(IF isMedia THEN mediaRateLimits ELSE messageRateLimits,
                          s, isMedia, burst)
           /\ mediaRateLimits' = IF isMedia THEN checked.map ELSE mediaRateLimits
           /\ messageRateLimits' = IF isMedia THEN messageRateLimits ELSE checked.map
           /\ IF ~checked.allowed THEN
                /\ emitted' = <<ErrorEvent(s, RateLimitError(isMedia))>>
                /\ UNCHANGED socketToRoom
              ELSE IF ~validation.valid THEN
                /\ emitted' = <<ErrorEvent(s, validation.error)>>
                /\ UNCHANGED socketToRoom
              ELSE IF ~Has(socketToRoom, s) THEN
                /\ emitted' = <<ErrorEvent(s, "Not in a chat room")>>
                /\ UNCHANGED socketToRoom
              ELSE IF ~MapHas(activeRooms, socketToRoom[s]) THEN
                /\ emitted' = <<ErrorEvent(s, "Chat room no longer exists")>>
                /\ socketToRoom' = Del(socketToRoom, s)
              ELSE
                /\ emitted' = ToRoom(Members(adapterRooms, socketToRoom[s]), 0, "new-message",
                                     [NoData EXCEPT !.roomId = socketToRoom[s],
                                                    !.from = s,
                                                    !.content = data.content,
                                                    !.type = TypeOrText(data),
                                                    !.timestamp = now])
                /\ UNCHANGED socketToRoom

(***************************************************************************)
(* socket.on('webrtc-offer' / 'webrtc-answer' / 'webrtc-ice-candidate')    *)
(* and socket.on('typing') of the production server.  A signalling payload *)
(* is null / undefined (the read of data.offer then throws, and the catch  *)
(* only logs) or an object.                                                *)
(***************************************************************************)
SignalEvents == {"webrtc-offer", "webrtc-answer", "webrtc-ice-candidate"}

Signal(s, event, present) ==
  /\ s \in sockets
  /\ event \in SignalEvents
  /\ lastEvent' = Event(event, s)
  /\ emitted' =
       IF Has(socketToRoom, s) /\ MapHas(activeRooms, socketToRoom[s]) /\ present
       THEN ToRoom(Members(adapterRooms, socketToRoom[s]), s, event,
                   [NoData EXCEPT !.roomId = socketToRoom[s], !.from = s,
                                  !.payload = event])
       ELSE <<>>
  /\ UNCHANGED <<sockets, closed, adapterRooms, waitingUsers, activeRooms, socketToRoom,
                 messageRateLimits, mediaRateLimits, now, sweepDue, nextUuid>>

(* Variant in which a relayed typing event renews the room, as a write of  *)
(* the time to the room record would; C24 does not hold of it.             *)
TypingRenews(s, isTyping) ==
  /\ s \in sockets
  /\ lastEvent' = Event("typing", s)
  /\ emitted' =
       IF Has(socketToRoom, s) /\ MapHas(activeRooms, socketToRoom[s])
       THEN ToRoom(Members(adapterRooms, socketToRoom[s]), s, "partner-typing",
                   [NoData EXCEPT !.roomId = socketToRoom[s], !.flag = isTyping])
       ELSE <<>>
  /\ activeRooms' =
       IF Has(socketToRoom, s) /\ MapHas(activeRooms, socketToRoom[s])
       THEN MapSet(activeRooms, socketToRoom[s],
                   [MapGet(activeRooms, socketToRoom[s]) EXCEPT !.createdAt = now])
       ELSE activeRooms
  /\ UNCHANGED <<sockets, closed, adapterRooms, waitingUsers, socketToRoom,
                 messageRateLimits, mediaRateLimits, now, sweepDue, nextUuid>>

Typing(s, isTyping) ==
  /\ s \in sockets
  /\ lastEvent' = Event("typing", s)
  /\ emitted' =
       IF Has(socketToRoom, s) /\ MapHas(activeRooms, socketToRoom[s])
       THEN ToRoom(Members(adapterRooms, socketToRoom[s]), s, "partner-typing",
                   [NoData EXCEPT !.roomId = socketToRoom[s], !.flag = isTyping])
       ELSE <<>>
  /\ UNCHANGED <<sockets, closed, adapterRooms, waitingUsers, activeRooms, socketToRoom,
                 messageRateLimits, mediaRateLimits, now, sweepDue, nextUuid>>

(***************************************************************************)
(* socket.on('end-chat').                                                  *)
(***************************************************************************)
(* Variant that answers an end-chat outside a chat with an error; C7 does  *)
(* not hold of it.                                                         *)
EndChatStrict(s) ==
  /\ s \in sockets
  /\ lastEvent' = Event("end-chat", s)
  /\ UNCHANGED <<sockets, closed, waitingUsers, messageRateLimits, mediaRateLimits,
                 now, sweepDue, nextUuid>>
  /\ IF ~Has(socketToRoom, s) THEN
       /\ emitted' = <<ErrorEvent(s, "Not in a chat room")>>
       /\ UNCHANGED <<adapterRooms, activeRooms, socketToRoom>>
     ELSE
       LET roomId == socketToRoom[s] IN
       /\ emitted' = ToRoom(Members(adapterRooms, roomId), 0, "chat-ended",
                            [NoData EXCEPT !.roomId = roomId,
                                           !.reason = "User left the chat"])
       /\ IF MapHas(activeRooms, roomId) THEN
            LET room == MapGet(activeRooms, roomId) IN
            /\ socketToRoom' = Del(Del(socketToRoom, room.user1.socketId),
                                   room.user2.socketId)
            /\ adapterRooms' =
                 LeaveIfLive(LeaveIfLive(adapterRooms, sockets, roomId, room.user1.socketId),
                             sockets, roomId, room.user2.socketId)
          ELSE UNCHANGED <<socketToRoom, adapterRooms>>
       /\ activeRooms' = MapDelete(activeRooms, roomId)

(* Variant that tells the partner only, not the socket that ends the chat; *)
(* C18 does not hold of it.                                                *)
EndChatBroadcast(s) ==
  /\ s \in sockets
  /\ lastEvent' = Event("end-chat", s)
  /\ UNCHANGED <<sockets, closed, waitingUsers, messageRateLimits, mediaRateLimits,
                 now, sweepDue, nextUuid>>
  /\ IF ~Has(socketToRoom, s) THEN
       /\ emitted' = <<>>
       /\ UNCHANGED <<adapterRooms, activeRooms, socketToRoom>>
     ELSE
       LET roomId == socketToRoom[s] IN
       /\ emitted' = ToRoom(Members(adapterRooms, roomId), s, "chat-ended",
                            [NoData EXCEPT !.roomId = roomId,
                                           !.reason = "User left the chat"])
       /\ IF MapHas(activeRooms, roomId) THEN
            LET room == MapGet(activeRooms, roomId) IN
            /\ socketToRoom' = Del(Del(socketToRoom, room.user1.socketId),
                                   room.user2.socketId)
            /\ adapterRooms' =
                 LeaveIfLive(LeaveIfLive(adapterRooms, sockets, roomId, room.user1.socketId),
                             sockets, roomId, room.user2.socketId)
          ELSE UNCHANGED <<socketToRoom, adapterRooms>>
       /\ activeRooms' = MapDelete(activeRooms, roomId)

EndChat(s) ==
  /\ s \in sockets
  /\ lastEvent' = Event("end-chat", s)
  /\ UNCHANGED <<sockets, closed, waitingUsers, messageRateLimits, mediaRateLimits,
                 now, sweepDue, nextUuid>>
  /\ IF ~Has(socketToRoom, s) THEN
       /\ emitted' = <<>>
       /\ UNCHANGED <<adapterRooms, activeRooms, socketToRoom>>
     ELSE
       LET roomId == socketToRoom[s] IN
       /\ emitted' = ToRoom(Members(adapterRooms, roomId), 0, "chat-ended",
                            [NoData EXCEPT !.roomId = roomId,
                                           !.reason = "User left the chat"])
       /\ IF MapHas(activeRooms, roomId) THEN
            LET room == MapGet(activeRooms, roomId) IN
            /\ socketToRoom' = Del(Del(socketToRoom, room.user1.socketId),
                                   room.user2.socketId)
            /\ adapterRooms' =
                 LeaveIfLive(LeaveIfLive(adapterRooms, sockets, roomId, room.user1.socketId),
                             sockets, roomId, room.user2.socketId)
          ELSE UNCHANGED <<socketToRoom, adapterRooms>>
       /\ activeRooms' = MapDelete(activeRooms, roomId)

(***************************************************************************)
(* socket.on('disconnect').  Socket.IO has removed the socket from         *)
(* io.sockets.sockets and from every room before the handler runs.  The    *)
(* two rate-limit deletions are those of the production server; the maps   *)
(* are empty in the basic server, where they change nothing.               *)
(***************************************************************************)
(* Variant that takes the disconnecting socket for its own partner; C6     *)
(* does not hold of it.                                                    *)
partnerSocketIdSelf(room, socketId) == socketId

partnerSocketId(room, socketId) ==
  IF room.user1.socketId = socketId THEN room.user2.socketId ELSE room.user1.socketId

(* Variant that leaves the room of the disconnecting socket in             *)
(* activeRooms; C16 does not hold of it.                                   *)
DisconnectKeepsRoom(s) ==
  /\ s \in sockets
  /\ lastEvent' = Event("disconnect", s)
  /\ sockets' = sockets \ {s}
  /\ closed' = closed \cup {s}
  /\ waitingUsers' = MapDelete(waitingUsers, s)
  /\ messageRateLimits' = Del(messageRateLimits, s)
  /\ mediaRateLimits' = Del(mediaRateLimits, s)
  /\ UNCHANGED <<now, sweepDue, nextUuid>>
  /\ LET left == LeaveAll(adapterRooms, s) IN
     IF ~Has(socketToRoom, s) THEN
       /\ emitted' = <<>>
       /\ adapterRooms' = left
       /\ UNCHANGED <<activeRooms, socketToRoom>>
     ELSE
       LET roomId == socketToRoom[s] IN
       /\ emitted' = ToRoom(Members(left, roomId), s, "chat-ended",
                            [NoData EXCEPT !.roomId = roomId,
                                           !.reason = "Partner disconnected"])
       /\ IF MapHas(activeRooms, roomId) THEN
            LET partner == partnerSocketId(MapGet(activeRooms, roomId), s)
            IN  /\ socketToRoom' = Del(Del(socketToRoom, partner), s)
                /\ adapterRooms' = LeaveIfLive(left, sockets', roomId, partner)
          ELSE
            /\ socketToRoom' = Del(socketToRoom, s)
            /\ adapterRooms' = left
       /\ activeRooms' = activeRooms

(* Variant that leaves the rate-limit windows of the disconnecting socket  *)
(* to the cleanup; C27 does not hold of it.                                *)
DisconnectKeepsLimits(s) ==
  /\ s \in sockets
  /\ lastEvent' = Event("disconnect", s)
  /\ sockets' = sockets \ {s}
  /\ closed' = closed \cup {s}
  /\ waitingUsers' = MapDelete(waitingUsers, s)
  /\ UNCHANGED <<messageRateLimits, mediaRateLimits>>
  /\ UNCHANGED <<now, sweepDue, nextUuid>>
  /\ LET left == LeaveAll(adapterRooms, s) IN
     IF ~Has(socketToRoom, s) THEN
       /\ emitted' = <<>>
       /\ adapterRooms' = left
       /\ UNCHANGED <<activeRooms, socketToRoom>>
     ELSE
       LET roomId == socketToRoom[s] IN
       /\ emitted' = ToRoom(Members(left, roomId), s, "chat-ended",
                            [NoData EXCEPT !.roomId = roomId,
                                           !.reason = "Partner disconnected"])
       /\ IF MapHas(activeRooms, roomId) THEN
            LET partner == partnerSocketId(MapGet(activeRooms, roomId), s)
            IN  /\ socketToRoom' = Del(Del(socketToRoom, partner), s)
                /\ adapterRooms' = LeaveIfLive(left, sockets', roomId, partner)
          ELSE
            /\ socketToRoom' = Del(socketToRoom, s)
            /\ adapterRooms' = left
       /\ activeRooms' = MapDelete(activeRooms, roomId)

(* Variant that deletes the binding of the disconnecting socket only and  *)
(* leaves its partner bound to the deleted room; C36 does not hold of it.  *)
DisconnectKeepsPartnerBound(s) ==
  /\ s \in sockets
  /\ lastEvent' = Event("disconnect", s)
  /\ sockets' = sockets \ {s}
  /\ closed' = closed \cup {s}
  /\ waitingUsers' = MapDelete(waitingUsers, s)
  /\ messageRateLimits' = Del(messageRateLimits, s)
  /\ mediaRateLimits' = Del(mediaRateLimits, s)
  /\ UNCHANGED <<now, sweepDue, nextUuid>>
  /\ LET left == LeaveAll(adapterRooms, s) IN
     IF ~Has(socketToRoom, s) THEN
       /\ emitted' = <<>>
       /\ adapterRooms' = left
       /\ UNCHANGED <<activeRooms, socketToRoom>>
     ELSE
       LET roomId == socketToRoom[s] IN
       /\ emitted' = ToRoom(Members(left, roomId), s, "chat-ended",
                            [NoData EXCEPT !.roomId = roomId,
                                           !.reason = "Partner disconnected"])
       /\ socketToRoom' = Del(socketToRoom, s)
       /\ IF MapHas(activeRooms, roomId) THEN
            LET partner == partnerSocketId(MapGet(activeRooms, roomId), s)
            IN  adapterRooms' = LeaveIfLive(left, sockets', roomId, partner)
          ELSE adapterRooms' = left
       /\ activeRooms' = MapDelete(activeRooms, roomId)

Disconnect(s) ==
  /\ s \in sockets
  /\ lastEvent' = Event("disconnect", s)
  /\ sockets' = sockets \ {s}
  /\ closed' = closed \cup {s}
  /\ waitingUsers' = MapDelete(waitingUsers, s)
  /\ messageRateLimits' = Del(messageRateLimits, s)
  /\ mediaRateLimits' = Del(mediaRateLimits, s)
  /\ UNCHANGED <<now, sweepDue, nextUuid>>
  /\ LET left == LeaveAll(adapterRooms, s) IN
     IF ~Has(socketToRoom, s) THEN
       /\ emitted' = <<>>
       /\ adapterRooms' = left
       /\ UNCHANGED <<activeRooms, socketToRoom>>
     ELSE
       LET roomId == socketToRoom[s] IN
       /\ emitted' = ToRoom(Members(left, roomId), s, "chat-ended",
                            [NoData EXCEPT !.roomId = roomId,
                                           !.reason = "Partner disconnected"])
       /\ IF MapHas(activeRooms, roomId) THEN
            LET partner == partnerSocketId(MapGet(activeRooms, roomId), s)
            IN  /\ socketToRoom' = Del(Del(socketToRoom, partner), s)
                /\ adapterRooms' = LeaveIfLive(left, sockets', roomId, partner)
          ELSE
            /\ socketToRoom' = Del(socketToRoom, s)
            /\ adapterRooms' = left
       /\ activeRooms' = MapDelete(activeRooms, roomId)

(***************************************************************************)
(* The periodic cleanup of the production server.                          *)
(***************************************************************************)
(* Variant that also removes the entries whose age equals the timeout; C10 *)
(* does not hold of it.                                                    *)
cleanupWaitingUsersInclusive(queue, time) ==
  SelectSeq(queue, LAMBDA e : ~(time - e.value.joinedAt >= QUEUE_TIMEOUT))

(* Variant that removes no entry for its age; C35 does not hold of it.     *)
cleanupWaitingUsersNever(queue, time) == queue

cleanupWaitingUsers(queue, time) ==
  SelectSeq(queue, LAMBDA e : ~(time - e.value.joinedAt > QUEUE_TIMEOUT))

(* cleanupStaleRooms: the loop over the entries of activeRooms, from entry *)
(* i on; st holds the maps and the events sent so far.                     *)
RECURSIVE StaleRoomsFrom(_, _, _, _, _)
StaleRoomsFrom(entries, i, st, live, time) ==
  IF i > Len(entries) THEN st
  ELSE
    LET roomId == entries[i].key
        room == entries[i].value
    IN  IF time - room.createdAt > ROOM_TIMEOUT
        THEN StaleRoomsFrom(entries, i + 1,
               [st EXCEPT
                  !.emitted = st.emitted \o
                              ToRoom(Members(st.adapterRooms, roomId), 0, "chat-ended",
                                     [NoData EXCEPT !.roomId = roomId,
                                                    !.reason = "Session timeout"]),
                  !.socketToRoom = Del(Del(st.socketToRoom, room.user1.socketId),
                                       room.user2.socketId),
                  !.adapterRooms = LeaveIfLive(LeaveIfLive(st.adapterRooms, live, roomId,
                                                           room.user1.socketId),
                                               live, roomId, room.user2.socketId),
                  !.activeRooms = MapDelete(st.activeRooms, roomId)],
               live, time)
        ELSE StaleRoomsFrom(entries, i + 1, st, live, time)

(* Variant that removes the stale rooms without telling their members; C11 *)
(* does not hold of it.                                                    *)
cleanupStaleRoomsSilent(st, live, time) ==
  [StaleRoomsFrom(st.activeRooms, 1, st, live, time) EXCEPT !.emitted = st.emitted]

cleanupStaleRooms(st, live, time) == StaleRoomsFrom(st.activeRooms, 1, st, live, time)

(* Variant that purges the windows older than one window duration; C31    *)
(* does not hold of it.                                                    *)
cleanupRateLimitsOneWindow(rateLimitMap, window, time) ==
  LET kept == {k \in DOMAIN rateLimitMap :
                 ~(time - rateLimitMap[k].windowStart > window)}
  IN  [k \in kept |-> rateLimitMap[k]]

cleanupRateLimits(rateLimitMap, window, time) ==
  LET kept == {k \in DOMAIN rateLimitMap :
                 ~(time - rateLimitMap[k].windowStart > window * 10)}
  IN  [k \in kept |-> rateLimitMap[k]]

(* Array.prototype.sort with the comparator a - b on joinedAt (waiting     *)
(* entries) or createdAt (rooms): a stable sort, oldest first.             *)
(* Variant that orders as the comparator b - a would, newest first; C30    *)
(* does not hold of it.                                                    *)
StampNewestFirst(e) ==
  0 - (IF "joinedAt" \in DOMAIN e.value THEN e.value.joinedAt ELSE e.value.createdAt)

Stamp(e) ==
  IF "joinedAt" \in DOMAIN e.value THEN e.value.joinedAt ELSE e.value.createdAt

RECURSIVE InsertSorted(_, _)
InsertSorted(sorted, e) ==
  IF sorted = <<>> THEN <<e>>
  ELSE IF Stamp(e) < Stamp(Head(sorted)) THEN <<e>> \o sorted
  ELSE <<Head(sorted)>> \o InsertSorted(Tail(sorted), e)

RECURSIVE SortOldestFirst(_)
SortOldestFirst(entries) ==
  IF entries = <<>> THEN <<>>
  ELSE InsertSorted(SortOldestFirst(SubSeq(entries, 1, Len(entries) - 1)),
                    entries[Len(entries)])

RECURSIVE DeleteKeys(_, _, _)
DeleteKeys(m, sorted, n) ==
  IF n = 0 THEN m ELSE DeleteKeys(MapDelete(m, Head(sorted).key), Tail(sorted), n - 1)

RECURSIVE UnbindRooms(_, _, _)
UnbindRooms(bindings, sorted, n) ==
  IF n = 0 THEN bindings
  ELSE UnbindRooms(Del(Del(bindings, Head(sorted).value.user1.socketId),
                       Head(sorted).value.user2.socketId),
                   Tail(sorted), n - 1)

(* Variant that deletes the excess rooms and leaves their members bound;   *)
(* C22 does not hold of it.                                                *)
enforceMemoryLimitsKeepsBindings(st) ==
  LET waitingExcess == Len(st.waitingUsers) - MAX_WAITING_USERS
      roomExcess == Len(st.activeRooms) - MAX_ACTIVE_ROOMS
  IN  [st EXCEPT
         !.waitingUsers =
            IF Len(st.waitingUsers) > MAX_WAITING_USERS
            THEN DeleteKeys(st.waitingUsers, SortOldestFirst(st.waitingUsers),
                            waitingExcess)
            ELSE st.waitingUsers,
         !.activeRooms =
            IF Len(st.activeRooms) > MAX_ACTIVE_ROOMS
            THEN DeleteKeys(st.activeRooms, SortOldestFirst(st.activeRooms),
                            roomExcess)
            ELSE st.activeRooms]

enforceMemoryLimits(st) ==
  LET waitingExcess == Len(st.waitingUsers) - MAX_WAITING_USERS
      roomExcess == Len(st.activeRooms) - MAX_ACTIVE_ROOMS
  IN  [st EXCEPT
         !.waitingUsers =
            IF Len(st.waitingUsers) > MAX_WAITING_USERS
            THEN DeleteKeys(st.waitingUsers, SortOldestFirst(st.waitingUsers),
                            waitingExcess)
            ELSE st.waitingUsers,
         !.socketToRoom =
            IF Len(st.activeRooms) > MAX_ACTIVE_ROOMS
            THEN UnbindRooms(st.socketToRoom, SortOldestFirst(st.activeRooms),
                             roomExcess)
            ELSE st.socketToRoom,
         !.activeRooms =
            IF Len(st.activeRooms) > MAX_ACTIVE_ROOMS
            THEN DeleteKeys(st.activeRooms, SortOldestFirst(st.activeRooms),
                            roomExcess)
            ELSE st.activeRooms]

(* The setInterval callback: the four phases, one after the other.         *)
Cleanup ==
  /\ now >= sweepDue
  /\ sweepDue' = now + CLEANUP_INTERVAL
  /\ lastEvent' = CleanupEvent(Len(waitingUsers) - Len(cleanupWaitingUsers(waitingUsers, now)))
  /\ LET afterRooms ==
           cleanupStaleRooms([emitted |-> <<>>,
                              waitingUsers |-> cleanupWaitingUsers(waitingUsers, now),
                              activeRooms |-> activeRooms,
                              socketToRoom |-> socketToRoom,
                              adapterRooms |-> adapterRooms],
                             sockets, now)
         final == enforceMemoryLimits(afterRooms)
     IN  /\ waitingUsers' = final.waitingUsers
         /\ activeRooms' = final.activeRooms
         /\ socketToRoom' = final.socketToRoom
         /\ adapterRooms' = final.adapterRooms
         /\ emitted' = final.emitted
  /\ messageRateLimits' = cleanupRateLimits(messageRateLimits, MESSAGE_RATE_WINDOW, now)
  /\ mediaRateLimits' = cleanupRateLimits(mediaRateLimits, MEDIA_RATE_WINDOW, now)
  /\ UNCHANGED <<sockets, closed, now, nextUuid>>

(***************************************************************************)
(* Time passes: Date.now() advances by d milliseconds, up to the horizon.  *)
(***************************************************************************)
Tick(d, horizon) ==
  /\ now + d <= horizon
  /\ now' = now + d
  /\ lastEvent' = Event("tick", 0)
  /\ emitted' = <<>>
  /\ UNCHANGED <<sockets, closed, adapterRooms, waitingUsers, activeRooms, socketToRoom,
                 messageRateLimits, mediaRateLimits, sweepDue, nextUuid>>

(***************************************************************************)
(* The handlers of the basic server (src/server.js).  Its payloads are     *)
(* taken to be objects with fields of the expected types: it reads them    *)
(* without validation and outside any try / catch.                         *)
(***************************************************************************)
JoinQueueBasic(s, userData) ==
  /\ s \in sockets
  /\ userData.present /\ userData.username.isString /\ userData.interests.isArray
  /\ lastEvent' = JoinEvent(s, userData)
  /\ UNCHANGED <<sockets, closed, messageRateLimits, mediaRateLimits, now, sweepDue>>
  /\ LET user == [username |-> userData.username.chars, gender |-> userData.gender,
                  preferredGender |-> userData.preferredGender,
                  interests |-> userData.interests.items, joinedAt |-> now]
     IN  \E randomIndex \in RandomIndexes(waitingUsers, user, s) :
         LET match == findMatch(waitingUsers, user, s, randomIndex) IN
         IF match.found THEN
           LET roomId == nextUuid
               joined == Join(adapterRooms, roomId, s)
               commonInterests == CommonInterests(user, match.user)
           IN  /\ nextUuid <= MaxRoomIds
               /\ nextUuid' = nextUuid + 1
               /\ waitingUsers' = MapDelete(waitingUsers, match.socketId)
               /\ adapterRooms' = IF match.socketId \in sockets
                                  THEN Join(joined, roomId, match.socketId)
                                  ELSE joined
               /\ activeRooms' =
                    MapSet(activeRooms, roomId,
                           [user1 |-> WithSocketId(s, user),
                            user2 |-> WithSocketId(match.socketId, match.user),
                            createdAt |-> now])
               /\ socketToRoom' = Put(Put(socketToRoom, s, roomId), match.socketId, roomId)
               /\ emitted' =
                    <<MatchFound(s, roomId, match.user, commonInterests)>> \o
                    (IF match.socketId \in sockets
                     THEN <<MatchFound(match.socketId, roomId, user, commonInterests)>>
                     ELSE <<>>)
         ELSE
           /\ waitingUsers' = MapSet(waitingUsers, s, user)
           /\ emitted' = <<Emit(s, "searching", NoData)>>
           /\ UNCHANGED <<adapterRooms, activeRooms, socketToRoom, nextUuid>>

LeaveQueueBasic(s) == LeaveQueue(s)

SendMessageBasic(s, data) ==
  /\ s \in sockets
  /\ data.present
  /\ lastEvent' = Event("send-message", s)
  /\ emitted' =
       IF Has(socketToRoom, s)
       THEN ToRoom(Members(adapterRooms, socketToRoom[s]), 0, "new-message",
                   [NoData EXCEPT !.roomId = socketToRoom[s], !.from = s,
                                  !.content = data.content,
                                  !.type = TypeOrText(data),
                                  !.timestamp = now])
       ELSE <<>>
  /\ UNCHANGED <<sockets, closed, adapterRooms, waitingUsers, activeRooms, socketToRoom,
                 messageRateLimits, mediaRateLimits, now, sweepDue, nextUuid>>

SignalBasic(s, event) ==
  /\ s \in sockets
  /\ event \in SignalEvents
  /\ lastEvent' = Event(event, s)
  /\ emitted' =
       IF Has(socketToRoom, s)
       THEN ToRoom(Members(adapterRooms, socketToRoom[s]), s, event,
                   [NoData EXCEPT !.roomId = socketToRoom[s], !.from = s,
                                  !.payload = event])
       ELSE <<>>
  /\ UNCHANGED <<sockets, closed, adapterRooms, waitingUsers, activeRooms, socketToRoom,
                 messageRateLimits, mediaRateLimits, now, sweepDue, nextUuid>>

TypingBasic(s, isTyping) ==
  /\ s \in sockets
  /\ lastEvent' = Event("typing", s)
  /\ emitted' =
       IF Has(socketToRoom, s)
       THEN ToRoom(Members(adapterRooms, socketToRoom[s]), s, "partner-typing",
                   [NoData EXCEPT !.roomId = socketToRoom[s], !.flag = isTyping])
       ELSE <<>>
  /\ UNCHANGED <<sockets, closed, adapterRooms, waitingUsers, activeRooms, socketToRoom,
                 messageRateLimits, mediaRateLimits, now, sweepDue, nextUuid>>

EndChatBasic(s) == EndChat(s)

DisconnectBasic(s) == Disconnect(s)

(***************************************************************************)
(* The second server of src/unnamed/part_001 (from line 943 on).  For      *)
(* payloads with a username and a gender its handlers are those of the     *)
(* basic server, each in a try block; it adds a timer that removes the     *)
(* waiting users older than TIMEOUT and the rooms both of whose sockets    *)
(* are gone.  Its heartbeat disconnects sockets that do not answer, which  *)
(* is a disconnect.                                                        *)
(***************************************************************************)
TIMEOUT == 300000

DEAD_ROOM_INTERVAL == 60000

(* Variant that takes a room for dead when one of its sockets is gone; C29 *)
(* does not hold of it.                                                    *)
DeadRoomEither(room, live) ==
  room.user1.socketId \notin live \/ room.user2.socketId \notin live

DeadRoom(room, live) ==
  room.user1.socketId \notin live /\ room.user2.socketId \notin live

CleanupSecond ==
  /\ now >= sweepDue
  /\ sweepDue' = now + DEAD_ROOM_INTERVAL
  /\ LET kept == SelectSeq(waitingUsers, LAMBDA e : ~(now - e.value.joinedAt > TIMEOUT))
         dead == SelectSeq(activeRooms, LAMBDA e : DeadRoom(e.value, sockets))
         unbound == UNION {{dead[i].value.user1.socketId, dead[i].value.user2.socketId} :
                            i \in 1..Len(dead)}
     IN  (* cleaned: the removals the run logs, one line each *)
         /\ lastEvent' = CleanupEvent(Len(waitingUsers) - Len(kept) + Len(dead))
         /\ waitingUsers' = kept
         /\ activeRooms' = SelectSeq(activeRooms, LAMBDA e : ~DeadRoom(e.value, sockets))
         /\ socketToRoom' = [h \in DOMAIN socketToRoom \ unbound |-> socketToRoom[h]]
  /\ emitted' = <<>>
  /\ UNCHANGED <<sockets, closed, adapterRooms, messageRateLimits, mediaRateLimits,
                 now, nextUuid>>

(***************************************************************************)
(* Matchmaking and session lifecycle of the production server under a      *)
(* small population: two profiles that match each other and not            *)
(* themselves, and one payload the validation rejects.                     *)
(***************************************************************************)
Him == UserData(JsString(<<"a", "l">>), "male", "female", JsArray(<<"music">>))

Her == UserData(JsString(<<"e", "v">>), "female", "male", JsArray(<<"music">>))

Payloads == {Him, Her, NoUserData}

SweepStep == CLEANUP_INTERVAL

Next ==
  \/ \E s \in Sockets : Connect(s)
  \/ \E s \in Sockets : \E userData \in Payloads : JoinQueue(s, userData)
  \/ \E s \in Sockets : LeaveQueue(s)
  \/ \E s \in Sockets : EndChat(s)
  \/ \E s \in Sockets : Disconnect(s)
  \/ Cleanup
  \/ Tick(SweepStep, MaxTicks * SweepStep)

Spec == Init /\ [][Next]_vars

TypeOK ==
  /\ sockets \cup closed = 1..Cardinality(sockets \cup closed)
  /\ sockets \cap closed = {}
  /\ MapKeys(waitingUsers) \subseteq sockets

(***************************************************************************)
(* Matching of the production server: idle clients request a match.  The   *)
(* profiles cover every gender / preference pair, and, for the two         *)
(* profiles that seek each other, interest lists with no tag, one tag,     *)
(* several tags and a repeated tag.                                        *)
(***************************************************************************)
Name == JsString(<<" ", "x">>)

GenderPayloads ==
  {UserData(Name, gender, preferredGender, JsArray(<<"music">>)) :
     gender \in {"male", "female"}, preferredGender \in {"male", "female", "any"}}

MatchInterests ==
  {<<>>, <<"music", "gaming">>, <<"gaming", "travel">>,
   <<"music", "music", "gaming", "travel">>}

InterestPayloads ==
  {UserData(Name, "male", "female", JsArray(interests)) : interests \in MatchInterests}
  \cup
  {UserData(Name, "female", "male", JsArray(interests)) : interests \in MatchInterests}

MatchPayloads == GenderPayloads \cup InterestPayloads

Idle(s) == s \in sockets /\ ~MapHas(waitingUsers, s) /\ ~Has(socketToRoom, s)

(* Socket ids are opaque and the handlers only compare them for equality,  *)
(* so the clients are taken to request in the order they connected.        *)
NextRequester(s) == Idle(s) /\ \A t \in 1..(s - 1) : ~Idle(t)

NextMatch ==
  \/ \E s \in 1..MatchSockets : Connect(s)
  \/ \E s \in 1..MatchSockets : \E userData \in MatchPayloads :
       NextRequester(s) /\ JoinQueue(s, userData)

SpecMatch == Init /\ [][NextMatch]_vars

(***************************************************************************)
(* The basic server (src/server.js) under the small population.            *)
(***************************************************************************)
TextMessage == Message("text", Content(TRUE, 2, 2, "", "", 0))

NextBasic ==
  \/ \E s \in Sockets : Connect(s)
  \/ \E s \in Sockets : \E userData \in {Him, Her} : JoinQueueBasic(s, userData)
  \/ \E s \in Sockets : LeaveQueueBasic(s)
  \/ \E s \in Sockets : SendMessageBasic(s, TextMessage)
  \/ \E s \in Sockets : SignalBasic(s, "webrtc-offer")
  \/ \E s \in Sockets : TypingBasic(s, TRUE)
  \/ \E s \in Sockets : EndChatBasic(s)
  \/ \E s \in Sockets : DisconnectBasic(s)

SpecBasic == Init /\ [][NextBasic]_vars

(***************************************************************************)
(* The second server with the two connections of one room, and its         *)
(* cleanup timer.                                                          *)
(***************************************************************************)
(* The profile a connection sends where matching is not at issue: Him for  *)
(* the odd ids, Her for the others.                                        *)
ProfileOf(s) == IF s % 2 = 1 THEN Him ELSE Her

RoomSockets == 2 * MAX_ACTIVE_ROOMS

NextSecond ==
  \/ \E s \in 1..RoomSockets : Connect(s)
  \/ \E s \in 1..RoomSockets : JoinQueueBasic(s, ProfileOf(s))
  \/ \E s \in 1..RoomSockets : EndChatBasic(s)
  \/ \E s \in 1..RoomSockets : DisconnectBasic(s)
  \/ CleanupSecond
  \/ Tick(DEAD_ROOM_INTERVAL, RelayTicks * DEAD_ROOM_INTERVAL)

SpecSecond == Init /\ [][NextSecond]_vars

(***************************************************************************)
(* The rate limiter of the production server: one connection sends text    *)
(* and image messages, at most MaxOver more than the limit of the class    *)
(* within one window, while time passes in steps of one message window.    *)
(***************************************************************************)
ImageMessage == Message("image", Content(TRUE, 30, 30, "image", "png", 8))

WindowStep == MESSAGE_RATE_WINDOW

BurstOf(data) ==
  (IF data.type \in {"image", "video"} THEN MEDIA_RATE_LIMIT ELSE MESSAGE_RATE_LIMIT)
  + MaxOver

NextRate ==
  \/ Connect(1)
  \/ \E data \in {TextMessage, ImageMessage} : SendMessage(1, data, BurstOf(data))
  \/ Tick(WindowStep, RateTicks * WindowStep)

SpecRate == Init /\ [][NextRate]_vars

(***************************************************************************)
(* The relay of the production server with one room more than              *)
(* MAX_ACTIVE_ROOMS allows, so that the cleanup evicts a room for          *)
(* capacity.  Matching is not at issue here: the connections with an odd   *)
(* id send the profile Him, the others Her.  The clients all connect       *)
(* first, and they send no event that their state makes pointless: a       *)
(* join-queue only when idle, an end-chat or a message only from a chat.   *)
(* Messages come from connection 1, at most RelayBurst per rate-limit      *)
(* window.                                                                 *)
(***************************************************************************)
RelaySockets == 2 * (MAX_ACTIVE_ROOMS + 1)

AllConnected == sockets \cup closed = 1..RelaySockets

NextRelay ==
  \/ \E s \in 1..RelaySockets : Connect(s)
  \/ \E s \in 1..RelaySockets : AllConnected /\ Idle(s) /\ JoinQueue(s, ProfileOf(s))
  \/ AllConnected /\ Has(socketToRoom, 1) /\ SendMessage(1, TextMessage, RelayBurst)
  \/ \E s \in 1..RelaySockets : AllConnected /\ Has(socketToRoom, s) /\ EndChat(s)
  \/ \E s \in 1..RelaySockets : AllConnected /\ Disconnect(s)
  \/ AllConnected /\ Cleanup
  \/ AllConnected /\ Tick(SweepStep, RelayTicks * SweepStep)

SpecRelay == Init /\ [][NextRelay]_vars

(***************************************************************************)
(* Signalling and typing events of the production server, in and out of    *)
(* rooms, with one connection more than a room takes.                      *)
(***************************************************************************)
SignalSockets == 2 * MAX_ACTIVE_ROOMS + 1

NextSignal ==
  \/ \E s \in 1..SignalSockets : Connect(s)
  \/ \E s \in 1..SignalSockets : JoinQueue(s, ProfileOf(s))
  \/ \E s \in 1..SignalSockets : \E event \in SignalEvents : Signal(s, event, TRUE)
  \/ \E s \in 1..SignalSockets : \E isTyping \in BOOLEAN : Typing(s, isTyping)
  \/ \E s \in 1..SignalSockets : EndChat(s)
  \/ \E s \in 1..SignalSockets : Disconnect(s)
  \/ Cleanup
  \/ Tick(SweepStep, MaxTicks * SweepStep)

SpecSignal == Init /\ [][NextSignal]_vars

(***************************************************************************)
(* The validation of join-queue payloads in the production server: the     *)
(* connections send well-formed payloads, among them the longest username  *)
(* and the most interests the validation accepts, and payloads with one    *)
(* defect each.                                                            *)
(***************************************************************************)
Repeat(item, n) == [i \in 1..n |-> item]

Music == JsArray(<<"music">>)

GoodPayloads ==
  {Him, Her,
   UserData(JsString(Repeat("x", MAX_USERNAME_LENGTH)), "female", "any", Music),
   UserData(Name, "male", "any", JsArray(Repeat("music", MAX_INTERESTS)))}

BadPayloads ==
  {NoUserData,
   UserData(NotAString, "male", "female", Music),
   UserData(JsString(<<>>), "male", "female", Music),
   UserData(JsString(Repeat("x", MAX_USERNAME_LENGTH + 1)), "male", "female", Music),
   UserData(Name, "other", "female", Music),
   UserData(Name, "", "female", Music),
   UserData(Name, "male", "other", Music),
   UserData(Name, "male", "female", NotAnArray),
   UserData(Name, "male", "female", JsArray(Repeat("music", MAX_INTERESTS + 1)))}

NextValidate ==
  \/ \E s \in Sockets : Connect(s)
  \/ \E s \in Sockets : \E userData \in GoodPayloads \cup BadPayloads : JoinQueue(s, userData)
  \/ \E s \in Sockets : EndChat(s)

SpecValidate == Init /\ [][NextValidate]_vars

(***************************************************************************)
(* Traffic in a room of the production server while the room ages, with   *)
(* as many connections as the rooms allowed take.  The members send        *)
(* messages (at most RelayBurst per rate-limit window), typing events and  *)
(* offers, only from a chat, while time passes and the cleanup timer       *)
(* fires.                                                                  *)
(***************************************************************************)
NextIdle ==
  \/ \E s \in 1..RoomSockets : Connect(s)
  \/ \E s \in 1..RoomSockets : JoinQueue(s, ProfileOf(s))
  \/ \E s \in 1..RoomSockets : Has(socketToRoom, s) /\ SendMessage(s, TextMessage, RelayBurst)
  \/ \E s \in 1..RoomSockets : Has(socketToRoom, s) /\ Signal(s, "webrtc-offer", TRUE)
  \/ \E s \in 1..RoomSockets : Has(socketToRoom, s) /\ Typing(s, TRUE)
  \/ \E s \in 1..RoomSockets : EndChat(s)
  \/ Cleanup
  \/ Tick(SweepStep, MaxTicks * SweepStep)

SpecIdle == Init /\ [][NextIdle]_vars

(***************************************************************************)
(* The rate limiter of the production server with two connections that     *)
(* may be in a room: connection 1 sends text and image messages, at most   *)
(* MaxOver more than the limit of the class within one window, and typing  *)
(* events and offers; connection 2 sends text messages, at most RelayBurst *)
(* per window.                                                             *)
(***************************************************************************)
NextFlood ==
  \/ \E s \in 1..RoomSockets : Connect(s)
  \/ \E s \in 1..RoomSockets : JoinQueue(s, ProfileOf(s))
  \/ \E data \in {TextMessage, ImageMessage} : SendMessage(1, data, BurstOf(data))
  \/ SendMessage(2, TextMessage, RelayBurst)
  \/ Typing(1, TRUE)
  \/ Signal(1, "webrtc-offer", TRUE)
  \/ Tick(WindowStep, RelayTicks * WindowStep)

SpecFlood == Init /\ [][NextFlood]_vars

(***************************************************************************)
(* The purge of the rate-limit windows of the production server: one       *)
(* connection sends text and image messages while time passes in steps of  *)
(* ten message windows, the purge threshold of the text class and a fifth  *)
(* of that of the media class, until the first cleanup is due.             *)
(***************************************************************************)
PurgeStep == MESSAGE_RATE_WINDOW * 10

NextPurge ==
  \/ Connect(1)
  \/ \E data \in {TextMessage, ImageMessage} : SendMessage(1, data, BurstOf(data))
  \/ Cleanup
  \/ Tick(PurgeStep, RateTicks * PurgeStep)

SpecPurge == Init /\ [][NextPurge]_vars

(***************************************************************************)
(* Refused messages of the production server: two connections that may be  *)
(* in a room; connection 1 sends text and image messages, at most MaxOver  *)
(* more than the limit of the class within one window, while time passes   *)
(* in steps of one message window, far enough for a window to elapse.      *)
(***************************************************************************)
NextRefuse ==
  \/ \E s \in 1..RoomSockets : Connect(s)
  \/ \E s \in 1..RoomSockets : JoinQueue(s, ProfileOf(s))
  \/ \E data \in {TextMessage, ImageMessage} : SendMessage(1, data, BurstOf(data))
  \/ Tick(WindowStep, MaxTicks * WindowStep)

SpecRefuse == Init /\ [][NextRefuse]_vars

(***************************************************************************)
(* Withdrawals of the production server: one connection more than a room   *)
(* takes, with the profiles of ProfileOf; a client sends leave-queue only  *)
(* while it waits, and any other event at any time.                        *)
(***************************************************************************)
NextWithdraw ==
  \/ \E s \in 1..SignalSockets : Connect(s)
  \/ \E s \in 1..SignalSockets : JoinQueue(s, ProfileOf(s))
  \/ \E s \in 1..SignalSockets : MapHas(waitingUsers, s) /\ LeaveQueue(s)
  \/ \E s \in 1..SignalSockets : EndChat(s)
  \/ \E s \in 1..SignalSockets : Disconnect(s)
  \/ Cleanup
  \/ Tick(SweepStep, RelayTicks * SweepStep)

SpecWithdraw == Init /\ [][NextWithdraw]_vars

(***************************************************************************)
(* The waiting queue of the production server over time.  setInterval      *)
(* keeps calling the cleanup and Date.now() keeps advancing, hence the     *)
(* weak fairness of Cleanup and of Tick.  Time stops at LiveHorizon, so     *)
(* the clients request a match only while two sweep intervals, which is    *)
(* what a waiting entry needs to exceed QUEUE_TIMEOUT, are still to come.  *)
(***************************************************************************)
LiveHorizon == (MaxTicks + 1) * SweepStep

NextLive ==
  \/ \E s \in 1..RoomSockets : Connect(s)
  \/ \E s \in 1..RoomSockets :
       now + 2 * SweepStep <= LiveHorizon /\ JoinQueue(s, ProfileOf(s))
  \/ \E s \in 1..RoomSockets : MapHas(waitingUsers, s) /\ LeaveQueue(s)
  \/ \E s \in 1..RoomSockets : Has(socketToRoom, s) /\ EndChat(s)
  \/ \E s \in 1..RoomSockets : Disconnect(s)
  \/ Cleanup
  \/ Tick(SweepStep, LiveHorizon)

SpecLive ==
  /\ Init /\ [][NextLive]_vars
  /\ WF_vars(Cleanup)
  /\ WF_vars(Tick(SweepStep, LiveHorizon))

(***************************************************************************)
(* The ways a room of the production server ends: end-chat, disconnect,    *)
(* the room timeout and, with one room more than MAX_ACTIVE_ROOMS allows,  *)
(* the capacity limit.  The clients all connect first and request a match  *)
(* only when idle, with the profile of ProfileOf.                          *)
(***************************************************************************)
NextTeardown ==
  \/ \E s \in 1..RelaySockets : Connect(s)
  \/ \E s \in 1..RelaySockets : AllConnected /\ Idle(s) /\ JoinQueue(s, ProfileOf(s))
  \/ \E s \in 1..RelaySockets : AllConnected /\ Has(socketToRoom, s) /\ EndChat(s)
  \/ \E s \in 1..RelaySockets : AllConnected /\ Disconnect(s)
  \/ AllConnected /\ Cleanup
  \/ AllConnected /\ Tick(SweepStep, MaxTicks * SweepStep)

SpecTeardown == Init /\ [][NextTeardown]_vars

(***************************************************************************)
(* What the rate limiter of the production server counts: connection 1,    *)
(* in a room or not, sends well-formed and malformed messages of both      *)
(* classes and a null payload, at most MaxOver more than the limit of the  *)
(* class within one window.                                                *)
(***************************************************************************)
EmptyMessage == Message("text", Content(TRUE, 0, 0, "", "", 0))

BadImageMessage == Message("image", Content(TRUE, 30, 30, "", "", 0))

CountedPayloads == {TextMessage, ImageMessage, EmptyMessage, BadImageMessage, NoMessage}

NextCount ==
  \/ \E s \in 1..RoomSockets : Connect(s)
  \/ \E s \in 1..RoomSockets : JoinQueue(s, ProfileOf(s))
  \/ \E data \in CountedPayloads : SendMessage(1, data, BurstOf(data))
  \/ Tick(WindowStep, RelayTicks * WindowStep)

SpecCount == Init /\ [][NextCount]_vars

(***************************************************************************)
(* Properties.                                                             *)
(***************************************************************************)
RoomMembers(room) == {room.user1.socketId, room.user2.socketId}

Bound(s) == Has(socketToRoom, s)

Waiting(s) == MapHas(waitingUsers, s)

(* C1: in every reachable state no connection handle is both a key of the  *)
(* waiting queue and bound to a session in socketToRoom.  The basic server *)
(* accepts a join-queue from a connection that is in a chat, and breaks    *)
(* it.                                                                     *)
C1_NeverWaitingAndBound == \A s \in MapKeys(waitingUsers) : ~Bound(s)

(* C5: in every reachable state every session has two members with         *)
(* distinct handles, and no handle is a member of two sessions.  The basic *)
(* server matches a connection that is in a chat into a second session,    *)
(* and breaks it.                                                          *)
C5_SessionsPairwiseDisjoint ==
  /\ \A i \in 1..Len(activeRooms) :
       activeRooms[i].value.user1.socketId # activeRooms[i].value.user2.socketId
  /\ \A i, j \in 1..Len(activeRooms) :
       i # j => RoomMembers(activeRooms[i].value) \cap RoomMembers(activeRooms[j].value) = {}

(* C2: when W is the only entry of the queue, a join-queue of R creates a   *)
(* session of R and W if and only if R wants W's gender (or any) and W      *)
(* wants R's gender (or any); otherwise no session is created and R is     *)
(* added to the queue.                                                     *)
C2_SoleCandidatePairedIffCompatible ==
  [][(/\ lastEvent'.name = "join-queue"
      /\ Idle(lastEvent'.socketId)
      /\ validateUserData(lastEvent'.data).valid
      /\ Len(waitingUsers) = 1)
     => LET R == lastEvent'.data
            W == waitingUsers[1].value
        IN  IF /\ R.preferredGender = "any" \/ R.preferredGender = W.gender
               /\ W.preferredGender = "any" \/ W.preferredGender = R.gender
            THEN /\ Len(activeRooms') = Len(activeRooms) + 1
                 /\ RoomMembers(activeRooms'[Len(activeRooms')].value)
                      = {lastEvent'.socketId, waitingUsers[1].key}
                 /\ waitingUsers' = <<>>
            ELSE /\ activeRooms' = activeRooms
                 /\ socketToRoom' = socketToRoom
                 /\ Len(waitingUsers') = 2
                 /\ waitingUsers'[1] = waitingUsers[1]
                 /\ waitingUsers'[2].key = lastEvent'.socketId]_vars

(* C2 witness: a join-queue has just paired a requester who accepts any    *)
(* gender with the only waiting user.                                      *)
C2_Witness ==
  /\ lastEvent.name = "join-queue"
  /\ lastEvent.data.preferredGender = "any"
  /\ waitingUsers = <<>>
  /\ Len(activeRooms) = 1
  /\ activeRooms[1].value.user1.socketId = lastEvent.socketId

(* C3: the partner a join-queue takes from the queue is compatible with    *)
(* the requester in both directions, and the number of distinct interests  *)
(* the two share is at least the number the requester shares with any      *)
(* other compatible waiting user.  The matcher counts a tag the requester  *)
(* lists twice as two shared interests, and breaks it.                     *)
C3_PartnerHasMaximalOverlap ==
  [][(/\ lastEvent'.name = "join-queue"
      /\ Len(activeRooms') = Len(activeRooms) + 1)
     => LET R == activeRooms'[Len(activeRooms')].value.user1
            P == activeRooms'[Len(activeRooms')].value.user2
            Compatible(w) ==
              /\ R.preferredGender = "any" \/ R.preferredGender = w.gender
              /\ w.preferredGender = "any" \/ w.preferredGender = R.gender
            Overlap(w) == Cardinality(Elems(R.interests) \cap Elems(w.interests))
        IN  /\ Compatible(P)
            /\ \A i \in 1..Len(waitingUsers) :
                 Compatible(waitingUsers[i].value)
                   => Overlap(P) >= Overlap(waitingUsers[i].value)]_vars

(* C4: for every request an idle connection can make, the partners the     *)
(* matcher can select are exactly the compatible waiting users that share  *)
(* the largest number of distinct interests with the requester, 0          *)
(* included.  It fails through the count of C3: of two waiting users tied  *)
(* on distinct shared interests, the one sharing the tag the requester     *)
(* lists twice is always selected.                                         *)
C4_EveryTiedCandidateIsPossible ==
  \A s \in sockets : \A userData \in MatchPayloads :
    Idle(s) =>
      LET user == validateUserData(userData).data
          Compatible(w) ==
            /\ user.preferredGender = "any" \/ user.preferredGender = w.gender
            /\ w.preferredGender = "any" \/ w.preferredGender = user.gender
          Overlap(w) == Cardinality(Elems(user.interests) \cap Elems(w.interests))
          candidates == {i \in 1..Len(waitingUsers) : Compatible(waitingUsers[i].value)}
          tied == {i \in candidates :
                     \A j \in candidates :
                       Overlap(waitingUsers[i].value) >= Overlap(waitingUsers[j].value)}
      IN  tied # {} =>
            {findMatch(waitingUsers, user, s, randomIndex).socketId :
               randomIndex \in RandomIndexes(waitingUsers, user, s)}
              = {waitingUsers[i].key : i \in tied}

(* C9: when a join-queue of A pairs it with the waiting B, each of the two *)
(* is sent one match-found, with the id of the new room, the other's       *)
(* username, gender and interests, and common interests whose elements are *)
(* the interests A and B both list; afterwards neither is in the queue and *)
(* both are bound to the room.                                             *)
C9_BothNotifiedOfMatch ==
  [][(/\ lastEvent'.name = "join-queue"
      /\ Len(activeRooms') = Len(activeRooms) + 1)
     => LET A == lastEvent'.socketId
            roomId == activeRooms'[Len(activeRooms')].key
            B == partnerSocketId(activeRooms'[Len(activeRooms')].value, A)
            profileA == validateUserData(lastEvent'.data).data
            profileB == MapGet(waitingUsers, B)
            shared == Elems(profileA.interests) \cap Elems(profileB.interests)
            toA == SelectSeq(emitted', LAMBDA e : e.to = A)
            toB == SelectSeq(emitted', LAMBDA e : e.to = B)
        IN  /\ A # B
            /\ Waiting(B)
            /\ Len(emitted') = 2 /\ Len(toA) = 1 /\ Len(toB) = 1
            /\ toA[1].event = "match-found" /\ toB[1].event = "match-found"
            /\ toA[1].data.roomId = roomId /\ toB[1].data.roomId = roomId
            /\ toA[1].data.partner = [username |-> profileB.username,
                                      gender |-> profileB.gender,
                                      interests |-> profileB.interests]
            /\ toB[1].data.partner = [username |-> profileA.username,
                                      gender |-> profileA.gender,
                                      interests |-> profileA.interests]
            /\ Elems(toA[1].data.commonInterests) = shared
            /\ Elems(toB[1].data.commonInterests) = shared
            /\ ~MapHas(waitingUsers', A) /\ ~MapHas(waitingUsers', B)
            /\ Has(socketToRoom', A) /\ socketToRoom'[A] = roomId
            /\ Has(socketToRoom', B) /\ socketToRoom'[B] = roomId]_vars

(* C9 witness: a join-queue has just paired two users who share "gaming"   *)
(* only, and both were told so.                                            *)
C9_Witness ==
  /\ lastEvent.name = "join-queue"
  /\ Len(activeRooms) = 1
  /\ Len(emitted) = 2
  /\ emitted[1].event = "match-found" /\ emitted[2].event = "match-found"
  /\ emitted[1].to # emitted[2].to
  /\ emitted[1].data.commonInterests = <<"gaming">>
  /\ emitted[2].data.commonInterests = <<"gaming">>

(* C6: when a member of a session disconnects, afterwards the session is   *)
(* not in activeRooms, neither member is bound in socketToRoom, and the    *)
(* other member has been sent exactly one chat-ended for the room of the   *)
(* session, with the reason "Partner disconnected".                        *)
C6_DisconnectEndsSession ==
  [][(/\ lastEvent'.name = "disconnect"
      /\ \E i \in 1..Len(activeRooms) :
           lastEvent'.socketId \in RoomMembers(activeRooms[i].value))
     => \A i \in 1..Len(activeRooms) :
          lastEvent'.socketId \in RoomMembers(activeRooms[i].value) =>
            LET roomId == activeRooms[i].key
                other == CHOOSE m \in RoomMembers(activeRooms[i].value) :
                           RoomMembers(activeRooms[i].value) = {m, lastEvent'.socketId}
                toOther == SelectSeq(emitted', LAMBDA e : e.to = other)
            IN  /\ other # lastEvent'.socketId
                /\ ~MapHas(activeRooms', roomId)
                /\ ~Has(socketToRoom', lastEvent'.socketId)
                /\ ~Has(socketToRoom', other)
                /\ Len(toOther) = 1
                /\ toOther[1].event = "chat-ended"
                /\ toOther[1].data.roomId = roomId
                /\ toOther[1].data.reason = "Partner disconnected"]_vars

(* C6 witness: a member of the only session has just disconnected, and the *)
(* other member, still connected, was told so.                             *)
C6_Witness ==
  /\ lastEvent.name = "disconnect"
  /\ nextUuid > 1
  /\ activeRooms = <<>>
  /\ socketToRoom = EmptyMap
  /\ Len(emitted) = 1
  /\ emitted[1].event = "chat-ended"
  /\ emitted[1].data.reason = "Partner disconnected"
  /\ emitted[1].to \in sockets

(* C7: an end-chat or a disconnect of a connection that is bound to no     *)
(* session (its session, if it had one, has ended) changes neither         *)
(* activeRooms nor socketToRoom and sends nothing, and the end-chat        *)
(* changes nothing else either; and a chat-ended is only ever sent for a   *)
(* room that is in activeRooms and that the same step removes, once per    *)
(* recipient.                                                              *)
C7_EndingIsIdempotent ==
  [][/\ (lastEvent'.name \in {"end-chat", "disconnect"} /\ ~Bound(lastEvent'.socketId))
          => /\ activeRooms' = activeRooms
             /\ socketToRoom' = socketToRoom
             /\ emitted' = <<>>
             /\ lastEvent'.name = "end-chat"
                  => /\ waitingUsers' = waitingUsers
                     /\ adapterRooms' = adapterRooms
                     /\ sockets' = sockets
                     /\ messageRateLimits' = messageRateLimits
                     /\ mediaRateLimits' = mediaRateLimits
     /\ \A i \in 1..Len(emitted') :
          emitted'[i].event = "chat-ended"
            => /\ MapHas(activeRooms, emitted'[i].data.roomId)
               /\ ~MapHas(activeRooms', emitted'[i].data.roomId)
               /\ \A j \in 1..Len(emitted') :
                    (emitted'[j].to = emitted'[i].to /\ emitted'[j].data = emitted'[i].data)
                      => j = i]_vars

(* C7 witness: a session was created and has ended, and a connection that  *)
(* is still there has just sent an end-chat, which sent nothing.           *)
C7_Witness ==
  /\ lastEvent.name = "end-chat"
  /\ nextUuid > 1
  /\ activeRooms = <<>>
  /\ socketToRoom = EmptyMap
  /\ emitted = <<>>

(* C8: a send-message checks the limit of its class (limit L, window W)    *)
(* for its connection.  A check that finds no window, or a window started  *)
(* more than W ago, starts a window at the current time, counts 1 and is   *)
(* allowed; any other check adds 1 to the count of the window and is       *)
(* allowed exactly when the count does not exceed L.  So the first L       *)
(* checks of a window are allowed, the next is refused, and the first      *)
(* check after the window is allowed again.                                *)
C8_RateLimitWindow ==
  [][lastEvent'.name = "send-message" =>
       \A isMedia \in BOOLEAN :
         LET before == IF isMedia THEN mediaRateLimits ELSE messageRateLimits
             after == IF isMedia THEN mediaRateLimits' ELSE messageRateLimits'
             L == IF isMedia THEN MEDIA_RATE_LIMIT ELSE MESSAGE_RATE_LIMIT
             W == IF isMedia THEN MEDIA_RATE_WINDOW ELSE MESSAGE_RATE_WINDOW
             s == lastEvent'.socketId
             refused == emitted' = <<ErrorEvent(s, RateLimitError(isMedia))>>
         IN  after # before =>
               /\ Has(after, s)
               /\ IF ~Has(before, s) \/ now - before[s].windowStart > W
                  THEN /\ after[s] = [count |-> 1, windowStart |-> now]
                       /\ ~refused
                  ELSE /\ after[s] = [count |-> before[s].count + 1,
                                      windowStart |-> before[s].windowStart]
                       /\ refused <=> before[s].count + 1 > L]_vars

(* C8 witness: the check after the last one allowed in a window of text    *)
(* messages has just been refused.                                         *)
C8_Witness ==
  /\ lastEvent.name = "send-message"
  /\ Has(messageRateLimits, lastEvent.socketId)
  /\ messageRateLimits[lastEvent.socketId].count = MESSAGE_RATE_LIMIT + 1
  /\ emitted = <<ErrorEvent(lastEvent.socketId, RateLimitError(FALSE))>>

(* C10, as stated: a cleanup removes from the queue every entry older than *)
(* QUEUE_TIMEOUT and keeps every other entry, and sends nothing to the     *)
(* connections it removes.  The cleanup also enforces MAX_WAITING_USERS,   *)
(* and so removes entries that are not older than the timeout.             *)
C10_RemovesExactlyTheExpired ==
  [][lastEvent'.name = "cleanup" =>
       /\ waitingUsers' = SelectSeq(waitingUsers,
                                    LAMBDA e : now - e.value.joinedAt <= QUEUE_TIMEOUT)
       /\ \A i \in 1..Len(emitted') :
            MapHas(waitingUsers, emitted'[i].to) => MapHas(waitingUsers', emitted'[i].to)]_vars

(* C10, amended: a cleanup removes from the queue every entry older than   *)
(* QUEUE_TIMEOUT; it keeps every other entry unless these number more than *)
(* MAX_WAITING_USERS, and then it keeps the MAX_WAITING_USERS of them that *)
(* joined last; it sends nothing to a connection that was in the queue.    *)
C10_RemovesExpiredAndExcess ==
  [][lastEvent'.name = "cleanup" =>
       LET young == SelectSeq(waitingUsers,
                              LAMBDA e : now - e.value.joinedAt <= QUEUE_TIMEOUT)
       IN  /\ \A i \in 1..Len(waitingUsers) :
                now - waitingUsers[i].value.joinedAt > QUEUE_TIMEOUT
                  => ~MapHas(waitingUsers', waitingUsers[i].key)
           /\ IF Len(young) <= MAX_WAITING_USERS
              THEN waitingUsers' = young
              ELSE /\ Len(waitingUsers') = MAX_WAITING_USERS
                   /\ \A i \in 1..Len(waitingUsers') :
                        \E j \in 1..Len(young) : young[j] = waitingUsers'[i]
                   /\ \A i \in 1..Len(waitingUsers') : \A j \in 1..Len(young) :
                        ~MapHas(waitingUsers', young[j].key)
                          => young[j].value.joinedAt <= waitingUsers'[i].value.joinedAt
           /\ \A i \in 1..Len(emitted') : ~MapHas(waitingUsers, emitted'[i].to)]_vars

(* C10 witness: a cleanup has just removed entries older than the timeout  *)
(* from the queue, and sent nothing.                                       *)
C10_Witness ==
  /\ lastEvent.name = "cleanup"
  /\ lastEvent.cleaned > 0
  /\ waitingUsers = <<>>
  /\ emitted = <<>>

(* C11: when a cleanup removes a room for being older than ROOM_TIMEOUT,    *)
(* every member of the room that is still connected is sent one chat-ended *)
(* for the room with the reason "Session timeout", neither member is bound *)
(* in socketToRoom afterwards, and the room is no longer in activeRooms.   *)
C11_TimeoutEndsSession ==
  [][lastEvent'.name = "cleanup" =>
       \A i \in 1..Len(activeRooms) :
         now - activeRooms[i].value.createdAt > ROOM_TIMEOUT =>
           /\ ~MapHas(activeRooms', activeRooms[i].key)
           /\ \A m \in RoomMembers(activeRooms[i].value) :
                /\ ~Has(socketToRoom', m)
                /\ m \in sockets =>
                     Len(SelectSeq(emitted',
                                   LAMBDA e : /\ e.to = m
                                              /\ e.event = "chat-ended"
                                              /\ e.data.roomId = activeRooms[i].key
                                              /\ e.data.reason = "Session timeout")) = 1]_vars

(* C11 witness: a cleanup has just removed the only room for its age and   *)
(* told its two members, both connected.                                   *)
C11_Witness ==
  /\ lastEvent.name = "cleanup"
  /\ nextUuid > 1
  /\ activeRooms = <<>>
  /\ socketToRoom = EmptyMap
  /\ Len(emitted) = 2
  /\ emitted[1].to # emitted[2].to
  /\ {emitted[1].to, emitted[2].to} \subseteq sockets
  /\ \A i \in 1..2 : /\ emitted[i].event = "chat-ended"
                     /\ emitted[i].data.reason = "Session timeout"

(* The events of one kind that a step sent to one connection.              *)
SentTo(events, to, event) ==
  SelectSeq(events, LAMBDA e : e.to = to /\ e.event = event)

(* C12: a send-message step that relays the message sends exactly two      *)
(* events, one new-message to each of the two members of the session the   *)
(* sender is bound to (the sender is one of them), carrying that message,  *)
(* and nothing to any other connection, whatever rooms existed before.     *)
C12_RelayedOnceToBothMembers ==
  [][(/\ lastEvent'.name = "send-message"
      /\ \E i \in 1..Len(emitted') : emitted'[i].event = "new-message")
       => LET s == lastEvent'.socketId
          IN  /\ Bound(s)
              /\ MapHas(activeRooms, socketToRoom[s])
              /\ LET room == MapGet(activeRooms, socketToRoom[s])
                 IN  /\ s \in RoomMembers(room)
                     /\ Cardinality(RoomMembers(room)) = 2
                     /\ Len(emitted') = 2
                     /\ \A m \in RoomMembers(room) : Len(SentTo(emitted', m, "new-message")) = 1
                     /\ \A i \in 1..Len(emitted') :
                          /\ emitted'[i].to \in RoomMembers(room)
                          /\ emitted'[i].data.from = s
                          /\ emitted'[i].data.roomId = socketToRoom[s]]_vars

(* C12 witness: a message was relayed to two connections while the         *)
(* Socket.IO room of a session evicted for capacity still has members.     *)
C12_Witness ==
  /\ lastEvent.name = "send-message"
  /\ Len(emitted) = 2
  /\ \A i \in 1..2 : emitted[i].event = "new-message"
  /\ \E r \in DOMAIN adapterRooms : ~MapHas(activeRooms, r) /\ Len(adapterRooms[r]) = 2

(* C13: a typing event or a WebRTC offer, answer or candidate from a       *)
(* member of a room sends one event, to the other member of that room; it  *)
(* sends nothing to the sender or to a connection outside the room, and    *)
(* from a connection that is in no room it sends nothing at all.           *)
C13_SignalsReachOnlyThePartner ==
  [][lastEvent'.name \in SignalEvents \cup {"typing"}
       => LET s == lastEvent'.socketId
          IN  IF Bound(s) /\ MapHas(activeRooms, socketToRoom[s])
              THEN LET room == MapGet(activeRooms, socketToRoom[s])
                   IN  /\ s \in RoomMembers(room)
                       /\ \A i \in 1..Len(emitted') :
                            emitted'[i].to \in RoomMembers(room) \ {s}
                       /\ Len(emitted') = Cardinality(RoomMembers(room) \ {s})
              ELSE emitted' = <<>>]_vars

(* C13 witness: a typing event reached the partner and nobody else, while  *)
(* a third connection was open outside the room.                           *)
C13_Witness ==
  /\ \E t \in sockets : ~Bound(t)
  /\ lastEvent.name = "typing"
  /\ Len(emitted) = 1
  /\ emitted[1].event = "partner-typing"
  /\ emitted[1].to # lastEvent.socketId
  /\ Bound(emitted[1].to)
  /\ socketToRoom[emitted[1].to] = socketToRoom[lastEvent.socketId]

C16_RoomMembersAreLive ==
  \A i \in 1..Len(activeRooms) : RoomMembers(activeRooms[i].value) \subseteq sockets

(* C16 witness: a join-queue has just created a room of two open           *)
(* connections after another connection has disconnected.                  *)
C16_Witness ==
  /\ lastEvent.name = "join-queue"
  /\ closed # {}
  /\ Len(activeRooms) = 1
  /\ Cardinality(RoomMembers(activeRooms[1].value)) = 2
  /\ RoomMembers(activeRooms[1].value) \subseteq sockets

(* C17: whenever a step removes a room from activeRooms, every member of   *)
(* the room whose connection is open after the step is sent a chat-ended   *)
(* event for that room with a reason.  The rooms that enforceMemoryLimits  *)
(* removes for capacity get no event.                                      *)
C17_EveryRemovalNotifies ==
  [][\A i \in 1..Len(activeRooms) :
       ~MapHas(activeRooms', activeRooms[i].key) =>
         \A m \in RoomMembers(activeRooms[i].value) \cap sockets' :
           \E j \in 1..Len(emitted') :
             /\ emitted'[j].to = m
             /\ emitted'[j].event = "chat-ended"
             /\ emitted'[j].data.roomId = activeRooms[i].key
             /\ emitted'[j].data.reason # ""]_vars

(* C18: an end-chat from a member of a room removes the room from          *)
(* activeRooms, removes the bindings of both members from socketToRoom,    *)
(* and sends each member whose connection is open one chat-ended event     *)
(* with the reason "User left the chat", and nothing to anyone else.       *)
C18_EndChatEndsTheSession ==
  [][(/\ lastEvent'.name = "end-chat"
      /\ Bound(lastEvent'.socketId)
      /\ MapHas(activeRooms, socketToRoom[lastEvent'.socketId]))
       => LET roomId == socketToRoom[lastEvent'.socketId]
              room == MapGet(activeRooms, roomId)
              live == RoomMembers(room) \cap sockets'
          IN  /\ ~MapHas(activeRooms', roomId)
              /\ \A m \in RoomMembers(room) : ~Has(socketToRoom', m)
              /\ Len(emitted') = Cardinality(live)
              /\ \A m \in live : Len(SentTo(emitted', m, "chat-ended")) = 1
              /\ \A j \in 1..Len(emitted') :
                   /\ emitted'[j].to \in live
                   /\ emitted'[j].data.roomId = roomId
                   /\ emitted'[j].data.reason = "User left the chat"]_vars

(* C18 witness: an end-chat has just ended one of two rooms: its two        *)
(* members were told and are bound to nothing, the other room is there.    *)
C18_Witness ==
  /\ lastEvent.name = "end-chat"
  /\ ~Bound(lastEvent.socketId)
  /\ Len(emitted) = 2
  /\ \A j \in 1..2 : /\ emitted[j].event = "chat-ended"
                     /\ emitted[j].data.reason = "User left the chat"
                     /\ ~Bound(emitted[j].to)
  /\ lastEvent.socketId \in {emitted[1].to, emitted[2].to}
  /\ Len(activeRooms) = 1

(* What C19 calls a missing or malformed payload.                          *)
Malformed(userData) ==
  \/ ~userData.present
  \/ ~userData.username.isString
  \/ userData.username.chars = <<>>
  \/ Len(userData.username.chars) > MAX_USERNAME_LENGTH
  \/ userData.gender \notin {"male", "female"}
  \/ userData.preferredGender \notin {"male", "female", "any"}
  \/ ~userData.interests.isArray
  \/ Len(userData.interests.items) > MAX_INTERESTS

(* C19: a join-queue whose payload is missing or malformed sends one error *)
(* event, to the sender, and leaves waitingUsers, activeRooms and          *)
(* socketToRoom as they were.                                              *)
C19_MalformedPayloadRejected ==
  [][(lastEvent'.name = "join-queue" /\ Malformed(lastEvent'.data))
       => /\ Len(emitted') = 1
          /\ emitted'[1].to = lastEvent'.socketId
          /\ emitted'[1].event = "error"
          /\ emitted'[1].data.message # ""
          /\ waitingUsers' = waitingUsers
          /\ activeRooms' = activeRooms
          /\ socketToRoom' = socketToRoom]_vars

(* C19 witness: while another connection waits for the partner it would    *)
(* be, an idle connection sent a payload with one interest too many and    *)
(* got "Too many interests"; the queue still holds the other one only.     *)
C19_Witness ==
  /\ lastEvent.name = "join-queue"
  /\ Idle(lastEvent.socketId)
  /\ lastEvent.data.present
  /\ lastEvent.data.interests.isArray
  /\ Len(lastEvent.data.interests.items) = MAX_INTERESTS + 1
  /\ emitted = <<ErrorEvent(lastEvent.socketId, "Too many interests")>>
  /\ Len(waitingUsers) = 1
  /\ waitingUsers[1].value.gender = "female"
  /\ waitingUsers[1].value.preferredGender = "any"

(* C20: a join-queue from a connection that is in the waiting queue or     *)
(* bound to a room is answered with an error and nothing else, and leaves  *)
(* waitingUsers (the stored profile and joinedAt), activeRooms and         *)
(* socketToRoom as they were.  The basic server has no such check: it      *)
(* runs findMatch for the sender again.                                    *)
C20_NoNewProfileWhileWaitingOrBound ==
  [][(/\ lastEvent'.name = "join-queue"
      /\ (Waiting(lastEvent'.socketId) \/ Bound(lastEvent'.socketId)))
       => /\ waitingUsers' = waitingUsers
          /\ activeRooms' = activeRooms
          /\ socketToRoom' = socketToRoom
          /\ Len(emitted') = 1
          /\ emitted'[1].to = lastEvent'.socketId
          /\ emitted'[1].event = "error"]_vars

(* C21: a join-queue with a well-formed payload from an idle connection    *)
(* is never answered with an error, however many entries waitingUsers and  *)
(* activeRooms hold: it either adds a room with the sender as a member and *)
(* binds the sender to it, or stores the sender in waitingUsers and        *)
(* answers "searching"; and it removes no room and no queue entry other    *)
(* than the partner it matched.                                            *)
C21_FullnessNeverRejects ==
  [][(/\ lastEvent'.name = "join-queue"
      /\ Idle(lastEvent'.socketId)
      /\ ~Malformed(lastEvent'.data))
       => LET s == lastEvent'.socketId
          IN  /\ \A i \in 1..Len(emitted') : emitted'[i].event # "error"
              /\ \A i \in 1..Len(activeRooms) : MapHas(activeRooms', activeRooms[i].key)
              /\ \/ /\ Has(socketToRoom', s)
                    /\ ~MapHas(activeRooms, socketToRoom'[s])
                    /\ MapHas(activeRooms', socketToRoom'[s])
                    /\ s \in RoomMembers(MapGet(activeRooms', socketToRoom'[s]))
                    /\ Len(activeRooms') = Len(activeRooms) + 1
                    /\ Len(waitingUsers') = Len(waitingUsers) - 1
                    /\ ~MapHas(waitingUsers', s)
                 \/ /\ ~Has(socketToRoom', s)
                    /\ MapHas(waitingUsers', s)
                    /\ Len(waitingUsers') = Len(waitingUsers) + 1
                    /\ activeRooms' = activeRooms
                    /\ emitted' = <<Emit(s, "searching", NoData)>>]_vars

(* C21 witness: a join-queue has just created a room although activeRooms  *)
(* already held MAX_ACTIVE_ROOMS rooms.                                    *)
C21_Witness ==
  /\ lastEvent.name = "join-queue"
  /\ Len(activeRooms) = MAX_ACTIVE_ROOMS + 1
  /\ Bound(lastEvent.socketId)
  /\ socketToRoom[lastEvent.socketId] = activeRooms[Len(activeRooms)].key
  /\ Len(emitted) = 2
  /\ \A i \in 1..2 : emitted[i].event = "match-found"

(* C22: in every reachable state socketToRoom and activeRooms agree: a     *)
(* socket is bound to a room id exactly when activeRooms has a room of     *)
(* that id with the socket as one of its two members.                      *)
C22_BindingsAgreeWithRooms ==
  /\ \A h \in DOMAIN socketToRoom :
       /\ MapHas(activeRooms, socketToRoom[h])
       /\ h \in RoomMembers(MapGet(activeRooms, socketToRoom[h]))
  /\ \A i \in 1..Len(activeRooms) :
       /\ Cardinality(RoomMembers(activeRooms[i].value)) = 2
       /\ \A m \in RoomMembers(activeRooms[i].value) :
            Has(socketToRoom, m) /\ socketToRoom[m] = activeRooms[i].key

(* C22 witness: a cleanup has just evicted one of two rooms for capacity,  *)
(* with all four connections open: one room and its two bindings remain.   *)
C22_Witness ==
  /\ lastEvent.name = "cleanup"
  /\ Cardinality(sockets) = RelaySockets
  /\ nextUuid > 2
  /\ Len(activeRooms) = 1
  /\ emitted = <<>>
  /\ Cardinality(DOMAIN socketToRoom) = 2
  /\ \E r \in DOMAIN adapterRooms : ~MapHas(activeRooms, r)

(* A member of the room has relayed a message in this room less than       *)
(* ROOM_TIMEOUT ago.  Where messages are only sent from a chat, within the *)
(* limit, the window a member's message opened after the room was created  *)
(* is the trace of a relay in this room.                                   *)
RelayedRecently(room) ==
  \E m \in RoomMembers(room) :
    /\ Has(messageRateLimits, m)
    /\ messageRateLimits[m].count <= MESSAGE_RATE_LIMIT
    /\ messageRateLimits[m].windowStart > room.createdAt
    /\ now - messageRateLimits[m].windowStart < ROOM_TIMEOUT

(* C23: a cleanup does not end for "Session timeout" a room in which a     *)
(* message was relayed less than ROOM_TIMEOUT before, however long ago the *)
(* room was created.  The server keeps no time of the last relay and       *)
(* decides on createdAt, so it ends such rooms.                            *)
C23_RelayKeepsSessionAlive ==
  [][lastEvent'.name = "cleanup" =>
       \A i \in 1..Len(activeRooms) :
         RelayedRecently(activeRooms[i].value) =>
           /\ MapHas(activeRooms', activeRooms[i].key)
           /\ \A j \in 1..Len(emitted') :
                ~(/\ emitted'[j].event = "chat-ended"
                  /\ emitted'[j].data.roomId = activeRooms[i].key)]_vars

(* C24: a typing event or a WebRTC offer, answer or candidate changes      *)
(* nothing that the cleanup reads (the rooms, the bindings, the queue, the *)
(* rate-limit maps, the clock), and the cleanup that runs right after such *)
(* an event was relayed in a room older than ROOM_TIMEOUT removes the room *)
(* and tells its members "Session timeout", as it does for a silent room.  *)
C24_TypingAndSignalsDoNotRenew ==
  [][/\ lastEvent'.name \in SignalEvents \cup {"typing"}
          => UNCHANGED <<sockets, adapterRooms, waitingUsers, activeRooms, socketToRoom,
                         messageRateLimits, mediaRateLimits, now, sweepDue>>
     /\ (/\ lastEvent'.name = "cleanup"
         /\ lastEvent.name \in SignalEvents \cup {"typing"}
         /\ emitted # <<>>)
          => \A i \in 1..Len(activeRooms) :
               now - activeRooms[i].value.createdAt > ROOM_TIMEOUT =>
                 /\ ~MapHas(activeRooms', activeRooms[i].key)
                 /\ \A m \in RoomMembers(activeRooms[i].value) :
                      /\ ~Has(socketToRoom', m)
                      /\ \E j \in 1..Len(emitted') :
                           /\ emitted'[j].to = m
                           /\ emitted'[j].event = "chat-ended"
                           /\ emitted'[j].data.reason = "Session timeout"]_vars

(* C24 witness: a typing event has just been relayed in a room that is     *)
(* older than ROOM_TIMEOUT, and the cleanup timer is due.                  *)
C24_Witness ==
  /\ lastEvent.name = "typing"
  /\ Len(emitted) = 1
  /\ emitted[1].event = "partner-typing"
  /\ Len(activeRooms) = 1
  /\ now - activeRooms[1].value.createdAt > ROOM_TIMEOUT
  /\ now >= sweepDue

(* The connection has been refused a text message in the rate-limit window *)
(* that is still open.                                                     *)
OverMessageLimit(s) ==
  /\ Has(messageRateLimits, s)
  /\ now - messageRateLimits[s].windowStart <= MESSAGE_RATE_WINDOW
  /\ messageRateLimits[s].count > MESSAGE_RATE_LIMIT

(* C25: a typing event or a WebRTC offer, answer or candidate is forwarded *)
(* to nobody when its sender is over its rate limit, when its sender is    *)
(* bound to no room, and when its sender is bound to a room that           *)
(* activeRooms does not have, in which case the binding is deleted.  The   *)
(* handlers of these events do not call checkRateLimit, so they forward    *)
(* the events of a connection whose messages are being refused.            *)
C25_TypingAndSignalsGatedLikeMessages ==
  [][lastEvent'.name \in SignalEvents \cup {"typing"}
       => LET s == lastEvent'.socketId
          IN  /\ (OverMessageLimit(s) \/ ~Bound(s)) => emitted' = <<>>
              /\ (Bound(s) /\ ~MapHas(activeRooms, socketToRoom[s]))
                   => emitted' = <<>> /\ ~Has(socketToRoom', s)]_vars

(* C26: a send-message that checks the rate limit of one class for its     *)
(* connection changes the window of that connection in the map of that     *)
(* class only: the map of the other class is unchanged, and so is the      *)
(* entry of every other connection.  It is refused for the rate limit only *)
(* when the open window of its own class already counts the limit of that  *)
(* class, whatever the window of the other class counts.                   *)
C26_WindowsAreIndependent ==
  [][lastEvent'.name = "send-message" =>
       \A isMedia \in BOOLEAN :
         LET before == IF isMedia THEN mediaRateLimits ELSE messageRateLimits
             after == IF isMedia THEN mediaRateLimits' ELSE messageRateLimits'
             other == IF isMedia THEN messageRateLimits ELSE mediaRateLimits
             otherAfter == IF isMedia THEN messageRateLimits' ELSE mediaRateLimits'
             L == IF isMedia THEN MEDIA_RATE_LIMIT ELSE MESSAGE_RATE_LIMIT
             W == IF isMedia THEN MEDIA_RATE_WINDOW ELSE MESSAGE_RATE_WINDOW
             s == lastEvent'.socketId
         IN  /\ after # before =>
                  /\ otherAfter = other
                  /\ DOMAIN after = DOMAIN before \cup {s}
                  /\ \A t \in DOMAIN before \ {s} : after[t] = before[t]
             /\ emitted' = <<ErrorEvent(s, RateLimitError(isMedia))>> =>
                  /\ Has(before, s)
                  /\ now - before[s].windowStart <= W
                  /\ before[s].count >= L]_vars

(* C26 witness: connection 1, whose media window is exhausted, has just    *)
(* had a text message relayed, while connection 2 has a window of its own. *)
C26_Witness ==
  /\ lastEvent.name = "send-message"
  /\ lastEvent.socketId = 1
  /\ Has(mediaRateLimits, 1)
  /\ mediaRateLimits[1].count > MEDIA_RATE_LIMIT
  /\ Has(messageRateLimits, 1)
  /\ messageRateLimits[1].count = 1
  /\ Has(messageRateLimits, 2)
  /\ Len(emitted) = 2
  /\ \A i \in 1..2 : emitted[i].event = "new-message" /\ emitted[i].data.type = "text"

(* C27: in every reachable state a connection whose disconnect has been    *)
(* handled is a key of no waiting entry, is bound to no room, is a member  *)
(* of no room of activeRooms and has no window in either rate-limit map.   *)
C27_DisconnectedHandleIsGone ==
  \A h \in closed :
    /\ h \notin sockets
    /\ ~MapHas(waitingUsers, h)
    /\ ~Has(socketToRoom, h)
    /\ \A i \in 1..Len(activeRooms) : h \notin RoomMembers(activeRooms[i].value)
    /\ ~Has(messageRateLimits, h)
    /\ ~Has(mediaRateLimits, h)

(* C27 witness: connection 1, which was in a room, has just disconnected:  *)
(* its partner was told, and the room of the two other connections is      *)
(* still there.                                                            *)
C27_Witness ==
  /\ lastEvent.name = "disconnect"
  /\ lastEvent.socketId = 1
  /\ 1 \in closed
  /\ Len(emitted) = 1
  /\ emitted[1].event = "chat-ended"
  /\ emitted[1].data.reason = "Partner disconnected"
  /\ Len(activeRooms) = 1

(* C29: after a run of the cleanup timer activeRooms has no room both of   *)
(* whose sockets are gone; both members of every room the run removed for  *)
(* that are bound to nothing; and every room with a socket that is still   *)
(* open is kept as it was.                                                 *)
C29_DeadRoomsAreSwept ==
  [][lastEvent'.name = "cleanup" =>
       /\ \A i \in 1..Len(activeRooms') :
            RoomMembers(activeRooms'[i].value) \cap sockets' # {}
       /\ \A i \in 1..Len(activeRooms) :
            IF RoomMembers(activeRooms[i].value) \cap sockets = {}
            THEN /\ ~MapHas(activeRooms', activeRooms[i].key)
                 /\ \A m \in RoomMembers(activeRooms[i].value) : ~Has(socketToRoom', m)
            ELSE /\ MapHas(activeRooms', activeRooms[i].key)
                 /\ MapGet(activeRooms', activeRooms[i].key) = activeRooms[i].value]_vars

(* C29 witness: a run of the cleanup timer has just removed a room that    *)
(* both sockets had left behind when they disconnected (no waiting user is *)
(* old enough to be removed, so the removal it logged is that of a room).  *)
C29_Witness ==
  /\ lastEvent.name = "cleanup"
  /\ lastEvent.cleaned = 1
  /\ now < TIMEOUT
  /\ sockets = {}
  /\ Cardinality(closed) = 2
  /\ activeRooms = <<>>
  /\ socketToRoom = EmptyMap

(* The time a waiting user joined the queue or a room was created.         *)
EntryTime(e) ==
  IF "joinedAt" \in DOMAIN e.value THEN e.value.joinedAt ELSE e.value.createdAt

(* What is left of a queue or of activeRooms is the part of `before` that  *)
(* capacity enforcement with the given ceiling leaves: all of it when it   *)
(* is within the ceiling, else exactly ceiling entries of it, in their     *)
(* order, none of them older than an entry that was removed.               *)
OldestExcessRemoved(before, after, ceiling) ==
  IF Len(before) <= ceiling THEN after = before
  ELSE /\ Len(after) = ceiling
       /\ after = SelectSeq(before, LAMBDA e : MapHas(after, e.key))
       /\ \A i \in 1..Len(before) : \A j \in 1..Len(after) :
            ~MapHas(after, before[i].key) => EntryTime(before[i]) <= EntryTime(after[j])

(* C30: the capacity phase of a cleanup, which works on the waiting users  *)
(* and the rooms that the timeout phases left, removes nothing from a      *)
(* structure within its ceiling, and from a larger one removes exactly the *)
(* excess, oldest first; it removes both bindings of every room it         *)
(* removes and no binding of a room it keeps.                              *)
C30_CapacityEvictsOldestExcess ==
  [][lastEvent'.name = "cleanup" =>
       LET young == SelectSeq(waitingUsers,
                              LAMBDA e : now - e.value.joinedAt <= QUEUE_TIMEOUT)
           fresh == SelectSeq(activeRooms,
                              LAMBDA e : now - e.value.createdAt <= ROOM_TIMEOUT)
       IN  /\ OldestExcessRemoved(young, waitingUsers', MAX_WAITING_USERS)
           /\ OldestExcessRemoved(fresh, activeRooms', MAX_ACTIVE_ROOMS)
           /\ \A i \in 1..Len(fresh) : \A m \in RoomMembers(fresh[i].value) :
                Has(socketToRoom', m) <=> MapHas(activeRooms', fresh[i].key)]_vars

(* C30 witness: a cleanup has just removed the older of two rooms created  *)
(* at different times, neither of them older than ROOM_TIMEOUT; the room   *)
(* created last is the one that is left.                                   *)
C30_Witness ==
  /\ lastEvent.name = "cleanup"
  /\ nextUuid > 2
  /\ Len(activeRooms) = 1
  /\ activeRooms[1].key = 2
  /\ activeRooms[1].value.createdAt > 0
  /\ \E r \in DOMAIN adapterRooms : r < activeRooms[1].key /\ Len(adapterRooms[r]) = 2

(* C31: a cleanup removes from each rate-limit map exactly the windows     *)
(* started more than ten window durations of the class ago, and leaves the *)
(* others with their count and start, so that after it no map holds an     *)
(* older window; a send-message of a connection that has no window in the  *)
(* map of its class starts one at the current time with count 1.           *)
C31_PurgeRemovesOnlyOldWindows ==
  [][\A isMedia \in BOOLEAN :
       LET before == IF isMedia THEN mediaRateLimits ELSE messageRateLimits
           after == IF isMedia THEN mediaRateLimits' ELSE messageRateLimits'
           W == IF isMedia THEN MEDIA_RATE_WINDOW ELSE MESSAGE_RATE_WINDOW
           s == lastEvent'.socketId
       IN  /\ lastEvent'.name = "cleanup" =>
                /\ DOMAIN after \subseteq DOMAIN before
                /\ \A k \in DOMAIN before :
                     IF now - before[k].windowStart > 10 * W
                     THEN ~Has(after, k)
                     ELSE Has(after, k) /\ after[k] = before[k]
                /\ \A k \in DOMAIN after : now' - after[k].windowStart <= 10 * W
           /\ lastEvent'.name = "send-message" /\ ~Has(before, s) /\ Has(after, s) =>
                after[s] = [count |-> 1, windowStart |-> now]]_vars

(* C31 witness: the first cleanup has run and has kept, with its count, a  *)
(* media window started exactly ten media windows earlier; a text message  *)
(* of the connection has then started a text window with count 1.          *)
C31_Witness ==
  /\ lastEvent.name = "send-message"
  /\ sweepDue > now
  /\ sweepDue > CLEANUP_INTERVAL
  /\ Has(mediaRateLimits, 1)
  /\ mediaRateLimits[1].windowStart = now - 10 * MEDIA_RATE_WINDOW
  /\ mediaRateLimits[1].count > 1
  /\ Has(messageRateLimits, 1)
  /\ messageRateLimits[1] = [count |-> 1, windowStart |-> now]

(* The last step was a send-message that the rate limiter of the given     *)
(* class refused.                                                          *)
RefusedSend(isMedia) ==
  /\ lastEvent'.name = "send-message"
  /\ emitted' = <<ErrorEvent(lastEvent'.socketId, RateLimitError(isMedia))>>

(* C32, as stated: a send-message refused for exceeding the rate limit is  *)
(* relayed to nobody and leaves the queue, the rooms, the bindings, the    *)
(* connections and both rate-limit maps as they were.                      *)
C32_RefusedSendChangesNothing ==
  [][\A isMedia \in BOOLEAN :
       RefusedSend(isMedia) =>
         UNCHANGED <<sockets, closed, adapterRooms, waitingUsers, activeRooms,
                     socketToRoom, messageRateLimits, mediaRateLimits>>]_vars

(* C32, amended: a send-message refused for exceeding the rate limit       *)
(* sends only the error to its sender and leaves the queue, the rooms, the *)
(* bindings, the connections and the rate-limit map of the other class as  *)
(* they were; in the map of its class only the sender's window changes:    *)
(* its count grows by one and its start stays.  A send-message that finds  *)
(* the sender's window of its class elapsed is not refused.                *)
C32_RefusedSendOnlyCounts ==
  [][\A isMedia \in BOOLEAN :
       LET before == IF isMedia THEN mediaRateLimits ELSE messageRateLimits
           after == IF isMedia THEN mediaRateLimits' ELSE messageRateLimits'
           W == IF isMedia THEN MEDIA_RATE_WINDOW ELSE MESSAGE_RATE_WINDOW
           s == lastEvent'.socketId
       IN  /\ RefusedSend(isMedia) =>
                /\ UNCHANGED <<sockets, closed, adapterRooms, waitingUsers, activeRooms,
                               socketToRoom>>
                /\ IF isMedia THEN UNCHANGED messageRateLimits
                   ELSE UNCHANGED mediaRateLimits
                /\ Has(before, s)
                /\ DOMAIN after = DOMAIN before
                /\ \A k \in DOMAIN before : k # s => after[k] = before[k]
                /\ after[s] = [count |-> before[s].count + 1,
                               windowStart |-> before[s].windowStart]
           /\ lastEvent'.name = "send-message" /\ after # before /\ Has(before, s)
              /\ now - before[s].windowStart > W
              => ~RefusedSend(isMedia)]_vars

(* C32 witness: connection 1, in a room with its partner, has just had an  *)
(* image refused, the first above the media limit of its window, which     *)
(* started before the current time.                                        *)
C32_Witness ==
  /\ lastEvent = Event("send-message", 1)
  /\ emitted = <<ErrorEvent(1, RateLimitError(TRUE))>>
  /\ Has(socketToRoom, 1)
  /\ MapHas(activeRooms, socketToRoom[1])
  /\ Has(mediaRateLimits, 1)
  /\ mediaRateLimits[1].count = MEDIA_RATE_LIMIT + 1
  /\ mediaRateLimits[1].windowStart < now

(* C33: a leave-queue of a connection that is not waiting, and an end-chat *)
(* of a connection that is bound to no room, leave the queue, the rooms,   *)
(* the bindings, the room memberships and the connections as they were and *)
(* send nothing; a leave-queue of a connection that is in a room leaves    *)
(* the room and the bindings of both its members as they were.             *)
C33_WrongStateChangesNothing ==
  [][LET s == lastEvent'.socketId
     IN  /\ (\/ lastEvent'.name = "leave-queue" /\ ~Waiting(s)
             \/ lastEvent'.name = "end-chat" /\ ~Bound(s))
              => /\ UNCHANGED <<waitingUsers, activeRooms, socketToRoom, adapterRooms,
                                sockets, closed>>
                 /\ emitted' = <<>>
         /\ lastEvent'.name = "leave-queue" /\ Bound(s)
              => /\ UNCHANGED <<activeRooms, socketToRoom, adapterRooms>>
                 /\ emitted' = <<>>]_vars

(* C33 witness: a connection that is in a room with a partner has just     *)
(* sent a leave-queue; the room and both bindings are there.               *)
C33_Witness ==
  /\ lastEvent.name = "leave-queue"
  /\ Has(socketToRoom, lastEvent.socketId)
  /\ MapHas(activeRooms, socketToRoom[lastEvent.socketId])
  /\ \A m \in RoomMembers(MapGet(activeRooms, socketToRoom[lastEvent.socketId])) :
       Has(socketToRoom, m) /\ socketToRoom[m] = socketToRoom[lastEvent.socketId]
  /\ emitted = <<>>

(* C34: the leave-queue of a waiting connection leaves it neither waiting  *)
(* nor bound to a room; and a connection that is neither waiting nor bound *)
(* stays so through every step other than its own join-queue: no step of   *)
(* another connection or of the cleanup puts it into a room, binds it, or  *)
(* sends it a match-found.  So from its withdrawal to its next join-queue  *)
(* no match selects the connection.                                        *)
C34_WithdrawnIsNeverMatched ==
  [][/\ (lastEvent'.name = "leave-queue" /\ Waiting(lastEvent'.socketId))
          => /\ ~MapHas(waitingUsers', lastEvent'.socketId)
             /\ ~Has(socketToRoom', lastEvent'.socketId)
             /\ emitted' = <<>>
     /\ \A s \in sockets :
          (/\ ~Waiting(s) /\ ~Bound(s)
           /\ ~(lastEvent'.name = "join-queue" /\ lastEvent'.socketId = s))
          => /\ ~MapHas(waitingUsers', s)
             /\ ~Has(socketToRoom', s)
             /\ \A i \in 1..Len(activeRooms') :
                  s \notin RoomMembers(activeRooms[i].value)'
             /\ SentTo(emitted', s, "match-found") = <<>>]_vars

(* C34 witness: a waiting connection has just withdrawn, and a connection  *)
(* with the profile it was waiting for is connected and idle.              *)
C34_Witness ==
  /\ lastEvent.name = "leave-queue"
  /\ ~Waiting(lastEvent.socketId)
  /\ ~Bound(lastEvent.socketId)
  /\ waitingUsers = <<>>
  /\ \E o \in sockets : ProfileOf(o) # ProfileOf(lastEvent.socketId)

(* C35: every connection that waits is eventually not waiting; and a step  *)
(* that removes a waiting entry is the connection's own leave-queue or     *)
(* disconnect, a join-queue of another connection that puts both into a    *)
(* room, or a cleanup that finds the entry older than QUEUE_TIMEOUT or     *)
(* finds more entries within the timeout than MAX_WAITING_USERS.           *)
C35_EveryEntryLeavesTheQueue ==
  /\ \A s \in 1..RoomSockets : Waiting(s) ~> ~Waiting(s)
  /\ [][\A s \in 1..RoomSockets :
          Waiting(s) /\ ~MapHas(waitingUsers', s) =>
            \/ lastEvent'.name \in {"leave-queue", "disconnect"} /\ lastEvent'.socketId = s
            \/ /\ lastEvent'.name = "join-queue"
               /\ lastEvent'.socketId # s
               /\ Has(socketToRoom', s)
               /\ Has(socketToRoom', lastEvent'.socketId)
               /\ socketToRoom'[s] = socketToRoom'[lastEvent'.socketId]
            \/ /\ lastEvent'.name = "cleanup"
               /\ \/ now - MapGet(waitingUsers, s).joinedAt > QUEUE_TIMEOUT
                  \/ Len(SelectSeq(waitingUsers,
                                   LAMBDA e : now - e.value.joinedAt <= QUEUE_TIMEOUT))
                       > MAX_WAITING_USERS]_vars

(* C35 witness: the only waiting entry, which no client event removed, has *)
(* just been removed by a cleanup for its age, with its connection still   *)
(* there and idle.                                                         *)
C35_Witness ==
  /\ lastEvent.name = "cleanup"
  /\ lastEvent.cleaned = 1
  /\ waitingUsers = <<>>
  /\ activeRooms = <<>>
  /\ nextUuid = 1
  /\ closed = {}
  /\ Cardinality(sockets) = 1

(* C36: when a step removes a room from activeRooms, whatever the step is, *)
(* every member of the room that is still connected is afterwards neither  *)
(* bound nor waiting; and a join-queue with a valid profile from a         *)
(* connection that is neither bound nor waiting is answered with           *)
(* match-found or searching, never with an error, and leaves the           *)
(* connection bound or waiting.                                            *)
C36_SurvivorsCanRequestAgain ==
  [][/\ \A i \in 1..Len(activeRooms) :
          ~MapHas(activeRooms', activeRooms[i].key) =>
            \A m \in RoomMembers(activeRooms[i].value) :
              m \in sockets' => ~Has(socketToRoom', m) /\ ~MapHas(waitingUsers', m)
     /\ (/\ lastEvent'.name = "join-queue"
         /\ Idle(lastEvent'.socketId)
         /\ validateUserData(lastEvent'.data).valid)
          => /\ \/ MapHas(waitingUsers', lastEvent'.socketId)
                \/ Has(socketToRoom', lastEvent'.socketId)
             /\ SentTo(emitted', lastEvent'.socketId, "error") = <<>>
             /\ \/ SentTo(emitted', lastEvent'.socketId, "match-found") # <<>>
                \/ SentTo(emitted', lastEvent'.socketId, "searching") # <<>>]_vars

(* C36 witness: a connection whose room the cleanup removed for capacity   *)
(* (it is still in the Socket.IO room of a room that is no longer in       *)
(* activeRooms) has just requested a match again and was accepted.         *)
C36_Witness ==
  /\ lastEvent.name = "join-queue"
  /\ \E r \in DOMAIN adapterRooms :
       /\ Includes(adapterRooms[r], lastEvent.socketId)
       /\ ~MapHas(activeRooms, r)
  /\ \/ Waiting(lastEvent.socketId)
     \/ Bound(lastEvent.socketId)
  /\ SentTo(emitted, lastEvent.socketId, "error") = <<>>

(* The first profile accepts the gender of the second.                     *)
Accepts(a, b) == a.preferredGender = "any" \/ a.preferredGender = b.gender

(* C37: in every state, of any two entries of the waiting queue at least   *)
(* one does not accept the gender of the other.                            *)
C37_NoCompatiblePairWaits ==
  \A i \in 1..Len(waitingUsers) : \A j \in 1..Len(waitingUsers) :
    i # j => ~(/\ Accepts(waitingUsers[i].value, waitingUsers[j].value)
               /\ Accepts(waitingUsers[j].value, waitingUsers[i].value))

(* C37 witness: two entries wait, the second queued by a request that was  *)
(* matched against the first; one of them accepts the other's gender and   *)
(* is not accepted in return.                                              *)
C37_Witness ==
  /\ lastEvent.name = "join-queue"
  /\ Len(waitingUsers) = 2
  /\ waitingUsers[2].key = lastEvent.socketId
  /\ \/ Accepts(waitingUsers[1].value, waitingUsers[2].value)
     \/ Accepts(waitingUsers[2].value, waitingUsers[1].value)
  /\ emitted = <<Emit(lastEvent.socketId, "searching", NoData)>>

(* C38: a join-queue that is answered with match-found removes from the    *)
(* queue exactly the entry of one other connection, the partner, appends   *)
(* exactly one room, whose members are the requester and the partner, and  *)
(* binds exactly these two to it; every other waiting entry, room and      *)
(* binding is as before.  A join-queue that is answered with searching     *)
(* appends exactly the requester's entry, with the validated profile and   *)
(* the current time, and changes no room, binding or other entry.          *)
C38_MatchChangesOnlyWhatItMust ==
  [][lastEvent'.name = "join-queue" =>
       LET s == lastEvent'.socketId
           profile == validateUserData(lastEvent'.data).data
       IN  /\ SentTo(emitted', s, "match-found") # <<>> =>
                \E c \in MapKeys(waitingUsers) \ {s} :
                  LET roomId == SentTo(emitted', s, "match-found")[1].data.roomId
                  IN  /\ ~Waiting(s) /\ ~Bound(s) /\ ~Bound(c)
                      /\ ~MapHas(activeRooms, roomId)
                      /\ waitingUsers' = SelectSeq(waitingUsers, LAMBDA e : e.key # c)
                      /\ Len(activeRooms') = Len(activeRooms) + 1
                      /\ \A i \in 1..Len(activeRooms) : activeRooms'[i] = activeRooms[i]
                      /\ activeRooms'[Len(activeRooms')].key = roomId
                      /\ RoomMembers(activeRooms'[Len(activeRooms')].value) = {s, c}
                      /\ DOMAIN socketToRoom' = DOMAIN socketToRoom \cup {s, c}
                      /\ \A k \in DOMAIN socketToRoom : socketToRoom'[k] = socketToRoom[k]
                      /\ socketToRoom'[s] = roomId /\ socketToRoom'[c] = roomId
           /\ SentTo(emitted', s, "searching") # <<>> =>
                /\ ~Waiting(s)
                /\ waitingUsers' =
                     waitingUsers \o
                     <<[key |-> s,
                        value |-> [username |-> profile.username,
                                   gender |-> profile.gender,
                                   preferredGender |-> profile.preferredGender,
                                   interests |-> profile.interests,
                                   joinedAt |-> now]]>>
                /\ UNCHANGED <<activeRooms, socketToRoom, adapterRooms, sockets, closed,
                               messageRateLimits, mediaRateLimits>>]_vars

(* C38 witness: a request has just been matched with one of two waiting    *)
(* connections; the entry of the other is still in the queue, and the      *)
(* room and its two bindings are the only ones.                            *)
C38_Witness ==
  /\ lastEvent.name = "join-queue"
  /\ SentTo(emitted, lastEvent.socketId, "match-found") # <<>>
  /\ Len(waitingUsers) = 1
  /\ ~Bound(waitingUsers[1].key)
  /\ Len(activeRooms) = 1
  /\ Cardinality(DOMAIN socketToRoom) = 2

(* The window of connection s in a rate-limit map after one more event is  *)
(* counted at the given time, W being the window duration of the class.    *)
CountedOnce(before, s, W, time) ==
  IF ~Has(before, s) \/ time - before[s].windowStart > W
  THEN [count |-> 1, windowStart |-> time]
  ELSE [count |-> before[s].count + 1, windowStart |-> before[s].windowStart]

(* C39: every send-message, except one whose payload is null and which is  *)
(* answered "Failed to send message", counts once in the sender's window   *)
(* of one class and leaves every other window alone, whether the message   *)
(* is then relayed or rejected by the limiter, by the validation or for    *)
(* want of a room; a relayed message counts in the window of its type.  A  *)
(* null payload counts in neither map.                                     *)
C39_EverySendIsCounted ==
  [][lastEvent'.name = "send-message" =>
       LET s == lastEvent'.socketId
           Counted(isMedia) ==
             LET before == IF isMedia THEN mediaRateLimits ELSE messageRateLimits
                 after == IF isMedia THEN mediaRateLimits' ELSE messageRateLimits'
                 W == IF isMedia THEN MEDIA_RATE_WINDOW ELSE MESSAGE_RATE_WINDOW
             IN  /\ IF isMedia THEN UNCHANGED messageRateLimits
                    ELSE UNCHANGED mediaRateLimits
                 /\ DOMAIN after = DOMAIN before \cup {s}
                 /\ after[s] = CountedOnce(before, s, W, now)
                 /\ \A k \in DOMAIN before : k # s => after[k] = before[k]
       IN  IF emitted' = <<ErrorEvent(s, "Failed to send message")>>
           THEN UNCHANGED <<messageRateLimits, mediaRateLimits>>
           ELSE /\ \E isMedia \in BOOLEAN : Counted(isMedia)
                /\ \A i \in 1..Len(emitted') :
                     emitted'[i].event = "new-message"
                       => Counted(emitted'[i].data.type \in {"image", "video"})]_vars

(* C39 witness: a connection that has never been in a room has used up its *)
(* window of text messages with messages that were all rejected, the last  *)
(* one for want of a room.                                                 *)
C39_Witness ==
  /\ lastEvent = Event("send-message", 1)
  /\ nextUuid = 1
  /\ ~Bound(1)
  /\ emitted = <<ErrorEvent(1, "Not in a chat room")>>
  /\ Has(messageRateLimits, 1)
  /\ messageRateLimits[1].count = MESSAGE_RATE_LIMIT

====
